---- MODULE Spec2Model ----
(***************************************************************************)
(* Verification model of conventional-commit-ai: the diff reducer          *)
(* (git/diff.ts optimizeDiff), the backend adapters' result and error      *)
(* handling, the response post-processing / multi-choice parsing, the      *)
(* commit message formatter and validator (git/commit.ts), the steps of    *)
(* runCLI (cli.ts), the exclusion filter (utils/patterns.ts) with          *)
(* getStagedDiff (git/diff.ts) and the exclusion patterns of loadConfig    *)
(* (config/index.ts).                                                      *)
(*                                                                         *)
(* Text is modelled as a sequence of one-character strings, so that        *)
(* split, join, trim and the regular expressions of the source are         *)
(* computed character by character.                                        *)
(***************************************************************************)
EXTENDS Integers, Sequences, FiniteSets, TLC

VARIABLES
    dpc,            \* position of the diff-reducer run: "input", "once", "twice"
    diff,           \* the raw diff text handed to optimizeDiff
    trace,          \* optimizeDiff's optimizedLines, each with the input index it came from
    reduced,        \* optimizeDiff(diff)
    reducedTwice,   \* optimizeDiff(optimizeDiff(diff))
    cpc,            \* position of the response-cleaning run: "idle", "input", "cleaned", "parsed"
    text,           \* the text handed to postProcessMessage and parseMultipleChoices
    cleaned,        \* what postProcessMessage(text) returned or threw
    parsed,         \* what parseMultipleChoices(text) returned or threw
    gpc,            \* position of the generation run: "idle", "request", "returned", "parsed", "failed"
    provider,       \* the selected backend adapter
    choices,        \* options.choices (0 when the option is absent)
    detailed,       \* the detailed flag handed to the adapter
    response,       \* the text the backend answered with
    native,         \* how the backend call ended: with a text, a native error, a block
    returned,       \* what generateCommitMessage returned or threw
    allChoices,     \* runCLI's parsed candidate list
    cliError,       \* the error runCLI threw, "" when none
    fpc,            \* position of the formatting run: "idle", "input", "formatted", "validated"
    rawMessage,     \* the text handed to formatCommitMessage and validateConventionalCommit
    formatted,      \* formatCommitMessage(message)
    validation,     \* what validateConventionalCommit(message) returned
    rpc,            \* position of runCLI
    options,        \* the command-line options dryRun, json and quiet
    apiKey,         \* the credential configured for the selected backend
    modelSupported, \* whether config.model is in the backend's list of models
    netCalls,       \* number of calls issued to the backend
    reads,          \* number of answers read by selectCommitMessage
    lastAnswer,     \* the last answer read by selectCommitMessage
    selectedMessage,        \* runCLI's selectedMessage
    displayMessage,         \* runCLI's displayMessage
    messageForValidation,   \* runCLI's messageForValidation
    formattedMessage,       \* runCLI's formattedMessage
    messageValidation,      \* runCLI's messageValidation
    logged,         \* the warnings and errors the logger has written
    output,         \* the message written to the standard output
    commits,        \* the messages createCommit was invoked with
    exitCode,       \* the exit code of the process, -1 while it runs
    spc,            \* position of the staged-changes run: "idle", "status", "returned", "checked"
    statusStaged,   \* git.status().staged
    statusModified, \* git.status().modified
    excludePatterns,\* the patterns handed to getStagedDiff
    gitDiff,        \* what git.diff answers for the files it is asked about
    stagedFiles,    \* getStagedDiff's stagedFiles
    filteredFiles,  \* getStagedDiff's filteredFiles
    diffArgs,       \* the paths git.diff was called with, one entry per call
    diffResult,     \* the changeset getStagedDiff returned
    stageError,     \* what runCLI threw after getStagedDiff, kind "none" when nothing
    kpc,            \* position of the configuration run: "idle", "sources", "loaded"
    configFile,     \* the excludePatterns entry of the configuration file, if any
    cliExclude,     \* the patterns of the --exclude option
    loadedPatterns  \* excludePatterns of the configuration loadConfig returned

vars == <<dpc, diff, trace, reduced, reducedTwice,
          cpc, text, cleaned, parsed,
          gpc, provider, choices, detailed, response, native, returned, allChoices, cliError,
          fpc, rawMessage, formatted, validation,
          rpc, options, apiKey, modelSupported, netCalls, reads, lastAnswer,
          selectedMessage, displayMessage, messageForValidation, formattedMessage,
          messageValidation, logged, output, commits, exitCode,
          spc, statusStaged, statusModified, excludePatterns, gitDiff, stagedFiles,
          filteredFiles, diffArgs, diffResult, stageError,
          kpc, configFile, cliExclude, loadedPatterns>>

diffVars == <<dpc, diff, trace, reduced, reducedTwice>>
cleanVars == <<cpc, text, cleaned, parsed>>
genVars == <<gpc, provider, choices, detailed, response, native, returned, allChoices, cliError>>
fmtVars == <<fpc, rawMessage, formatted, validation>>
runVars == <<rpc, options, apiKey, modelSupported, netCalls, reads, lastAnswer,
             selectedMessage, displayMessage, messageForValidation, formattedMessage,
             messageValidation, logged, output, commits, exitCode>>
stageVars == <<spc, statusStaged, statusModified, excludePatterns, gitDiff, stagedFiles,
               filteredFiles, diffArgs, diffResult, stageError>>
confVars == <<kpc, configFile, cliExclude, loadedPatterns>>

----------------------------------------------------------------------------
(* Bounds of the model *)

\* largest number of lines of an input diff
MaxLines == 3

\* largest number of tokens of a text handed to the response cleaning
MaxTokens == 4

\* largest number of lines of a backend response
MaxRespLines == 3

----------------------------------------------------------------------------
(* Characters and strings *)

NL == "\n"
TAB == "\t"

\* String.prototype.trim and the regex class \s, on the characters of the model
IsSpace(c) == c \in {" ", TAB, NL}

IsDigit(c) == c \in {"0", "1", "2", "3", "4", "5", "6", "7", "8", "9"}

\* String.prototype.startsWith
StartsWith(s, p) == Len(s) >= Len(p) /\ SubSeq(s, 1, Len(p)) = p

\* String.prototype.endsWith
EndsWith(s, p) == Len(s) >= Len(p) /\ SubSeq(s, Len(s) - Len(p) + 1, Len(s)) = p

\* s.slice(1)
Slice1(s) == SubSeq(s, 2, Len(s))

\* s.slice(0, -1)
DropLast(s) == SubSeq(s, 1, Len(s) - 1)

\* s.slice(1, -1)
SliceInner(s) == SubSeq(s, 2, Len(s) - 1)

HasNonSpace(s) == \E k \in 1..Len(s) : ~IsSpace(s[k])

\* index of the first character of s that is not white space
FirstNonSpace(s) ==
    CHOOSE k \in 1..Len(s) : ~IsSpace(s[k]) /\ \A j \in 1..(k - 1) : IsSpace(s[j])

\* index of the last character of s that is not white space
LastNonSpace(s) ==
    CHOOSE k \in 1..Len(s) : ~IsSpace(s[k]) /\ \A j \in (k + 1)..Len(s) : IsSpace(s[j])

\* String.prototype.trim
Trim(s) ==
    IF ~HasNonSpace(s) THEN <<>>
    ELSE SubSeq(s, FirstNonSpace(s), LastNonSpace(s))

\* s.replace(/\s+$/, '')
TrimEnd(s) ==
    IF ~HasNonSpace(s) THEN <<>>
    ELSE SubSeq(s, 1, LastNonSpace(s))

\* index of the first c in s, 0 when there is none
IndexOf(s, c) ==
    IF \E k \in 1..Len(s) : s[k] = c
    THEN CHOOSE k \in 1..Len(s) : s[k] = c /\ \A j \in 1..(k - 1) : s[j] # c
    ELSE 0

\* text.split('\n')
RECURSIVE Split(_)
Split(s) ==
    LET p == IndexOf(s, NL)
    IN  IF p = 0 THEN <<s>>
        ELSE <<SubSeq(s, 1, p - 1)>> \o Split(SubSeq(s, p + 1, Len(s)))

\* lines.join('\n')
RECURSIVE Join(_)
Join(ls) ==
    IF Len(ls) = 0 THEN <<>>
    ELSE IF Len(ls) = 1 THEN ls[1]
    ELSE ls[1] \o <<NL>> \o Join(Tail(ls))

\* the concatenation of a sequence of strings
RECURSIVE Concat(_)
Concat(ss) == IF Len(ss) = 0 THEN <<>> ELSE ss[1] \o Concat(Tail(ss))

----------------------------------------------------------------------------
(* git/diff.ts: the diff reducer *)

\* content.length < 100 leaves a line untouched
LineLimit == 100

DiffGitPrefix == <<"d", "i", "f", "f", " ", "-", "-", "g", "i", "t">>
IndexPrefix == <<"i", "n", "d", "e", "x", " ">>
PlusPrefix == <<"+", "+", "+">>
MinusPrefix == <<"-", "-", "-">>
HunkPrefix == <<"@", "@">>

\* the diff header and file info lines, and the hunk headers
isHeaderLine(line) ==
    \/ StartsWith(line, DiffGitPrefix)
    \/ StartsWith(line, IndexPrefix)
    \/ StartsWith(line, PlusPrefix)
    \/ StartsWith(line, MinusPrefix)
    \/ StartsWith(line, HunkPrefix)

\* the commentPatterns of isCommentOnlyChange
commentPatterns ==
    { <<"/", "/">>, <<"/", "*">>, <<"*">>, <<"*", "/">>, <<"#">>,
      <<"<", "!", "-", "-">>, <<"/", "/", "/">> }

isCommentOnlyChangeNoMarker(line) ==
    \E p \in commentPatterns : StartsWith(Trim(Slice1(line)), p)

isCommentOnlyChange(line) ==
    IF ~StartsWith(line, <<"+">>) /\ ~StartsWith(line, <<"-">>) THEN FALSE
    ELSE \E p \in commentPatterns : StartsWith(Trim(Slice1(line)), p)

isBlankLine(line) ==
    Trim(line) = <<>> \/ \A k \in 1..Len(line) : IsSpace(line[k])

\* s.replace(/  +/g, ' ') on the characters lo..hi of s: a space that follows
\* a space is dropped
RECURSIVE CollapseRange(_, _, _)
CollapseRange(s, lo, hi) ==
    IF lo > hi THEN <<>>
    ELSE IF lo = hi THEN
        IF s[lo] = " " /\ lo > 1 /\ s[lo - 1] = " " THEN <<>> ELSE <<s[lo]>>
    ELSE LET mid == (lo + hi) \div 2
         IN  CollapseRange(s, lo, mid) \o CollapseRange(s, mid + 1, hi)

\* s.replace(/  +/g, ' ')
CollapseSpaces(s) == CollapseRange(s, 1, Len(s))

normalizeWhitespace(line) ==
    IF ~StartsWith(line, <<"+">>) /\ ~StartsWith(line, <<"-">>) /\ ~StartsWith(line, <<" ">>)
    THEN line
    ELSE LET prefix == SubSeq(line, 1, 1)
             content == Slice1(line)
         IN  IF Len(content) < LineLimit THEN line
             ELSE prefix \o CollapseSpaces(TrimEnd(content))

isPairedCompareUntrimmed(line, nextLine) ==
    /\ StartsWith(line, <<"-">>)
    /\ StartsWith(nextLine, <<"+">>)
    /\ nextLine # <<>>
    /\ Slice1(line) = Slice1(nextLine)
    /\ Trim(Slice1(line)) # <<>>

\* the test for a paired whitespace-only change: a '-' line followed by a
\* '+' line with the same trimmed, non-empty content
isPairedWhitespaceChange(line, nextLine) ==
    /\ StartsWith(line, <<"-">>)
    /\ StartsWith(nextLine, <<"+">>)
    /\ nextLine # <<>>
    /\ Trim(Slice1(line)) = Trim(Slice1(nextLine))
    /\ Trim(Slice1(line)) # <<>>

keepBlankLineUpToTwo(consecutiveBlankLines) == consecutiveBlankLines <= 2

\* consecutive blank lines are limited to 1
keepBlankLine(consecutiveBlankLines) == consecutiveBlankLines <= 1

\* the while loop of optimizeDiff from index i (1-based) on; out is
\* optimizedLines, each pushed line recorded with the index it was read at
RECURSIVE optimizeLoop(_, _, _, _)
optimizeLoop(lines, i, out, consecutiveBlankLines) ==
    IF i > Len(lines) THEN out
    ELSE LET line == lines[i]
             hasNext == i + 1 <= Len(lines)
         IN  IF line = <<>> THEN
                 optimizeLoop(lines, i + 1, out, consecutiveBlankLines)
             ELSE IF isHeaderLine(line) THEN
                 optimizeLoop(lines, i + 1, Append(out, [idx |-> i, text |-> line]), 0)
             ELSE IF hasNext /\ isPairedWhitespaceChange(line, lines[i + 1]) THEN
                 optimizeLoop(lines, i + 2, out, consecutiveBlankLines)
             ELSE IF isCommentOnlyChange(line) THEN
                 optimizeLoop(lines, i + 1, out, consecutiveBlankLines)
             ELSE IF isBlankLine(line) THEN
                 optimizeLoop(lines, i + 1,
                              IF keepBlankLine(consecutiveBlankLines + 1)
                              THEN Append(out, [idx |-> i, text |-> line])
                              ELSE out,
                              consecutiveBlankLines + 1)
             ELSE
                 optimizeLoop(lines, i + 1,
                              Append(out, [idx |-> i, text |-> normalizeWhitespace(line)]),
                              0)

\* optimizedLines of a run of the loop
Texts(tr) == [k \in 1..Len(tr) |-> tr[k].text]

optimizeDiff(d) == Join(Texts(optimizeLoop(Split(d), 1, <<>>, 0)))

----------------------------------------------------------------------------
(* The diff texts the reducer is run on *)

Pad(n) == [k \in 1..n |-> "x"]

\* a long added line: indented by two spaces, with an interior run of two
\* spaces and trailing whitespace
LongAdded == <<"+", " ", " ">> \o Pad(LineLimit) \o <<" ", " ", "b", " ">>

\* a long removed line that no normalization changes
LongRemoved == <<"-", " ">> \o Pad(LineLimit) \o <<" ", "b">>

LinePool ==
    { <<>>, <<" ">>,
      <<" ", "#">>,
      <<"-", "a">>, <<"+", TAB, "a">>,
      <<"-", "#">>,
      MinusPrefix \o <<" ", "a">>, PlusPrefix \o <<" ", "a">>,
      <<"-", "+", "+", " ", "a">>, <<"+", "-", "-", " ", "a">>,
      HunkPrefix, IndexPrefix, DiffGitPrefix,
      LongAdded, LongRemoved }

DiffLineSeqs == UNION {[1..n -> LinePool] : n \in 0..MaxLines}

DiffInputs == {Join(ls) : ls \in DiffLineSeqs}

DiffIdle ==
    /\ dpc = "idle"
    /\ diff = <<>>
    /\ trace = <<>>
    /\ reduced = <<>>
    /\ reducedTwice = <<>>

CleanIdle ==
    /\ cpc = "idle"
    /\ text = <<>>
    /\ cleaned = [kind |-> "none"]
    /\ parsed = [kind |-> "none"]

GenIdle ==
    /\ gpc = "idle"
    /\ provider = "none"
    /\ choices = 0
    /\ detailed = FALSE
    /\ response = <<>>
    /\ native = [kind |-> "none", shape |-> "", msg |-> ""]
    /\ returned = [kind |-> "none"]
    /\ allChoices = <<>>
    /\ cliError = ""

FmtIdle ==
    /\ fpc = "idle"
    /\ rawMessage = <<>>
    /\ formatted = <<>>
    /\ validation = [valid |-> TRUE, error |-> ""]

RunIdle ==
    /\ rpc = "idle"
    /\ options = [dryRun |-> FALSE, json |-> FALSE, quiet |-> FALSE]
    /\ apiKey = <<>>
    /\ modelSupported = FALSE
    /\ netCalls = 0
    /\ reads = 0
    /\ lastAnswer = <<>>
    /\ selectedMessage = <<>>
    /\ displayMessage = <<>>
    /\ messageForValidation = <<>>
    /\ formattedMessage = <<>>
    /\ messageValidation = [valid |-> TRUE, error |-> ""]
    /\ logged = <<>>
    /\ output = <<>>
    /\ commits = <<>>
    /\ exitCode = -1

StageIdle ==
    /\ spc = "idle"
    /\ statusStaged = <<>>
    /\ statusModified = <<>>
    /\ excludePatterns = <<>>
    /\ gitDiff = <<>>
    /\ stagedFiles = <<>>
    /\ filteredFiles = <<>>
    /\ diffArgs = <<>>
    /\ diffResult = [kind |-> "none"]
    /\ stageError = [kind |-> "none", n |-> 0]

ConfIdle ==
    /\ kpc = "idle"
    /\ configFile = [present |-> FALSE, patterns |-> <<>>]
    /\ cliExclude = <<>>
    /\ loadedPatterns = <<>>

DiffInit ==
    /\ dpc = "input"
    /\ diff \in DiffInputs
    /\ trace = <<>>
    /\ reduced = <<>>
    /\ reducedTwice = <<>>
    /\ CleanIdle
    /\ GenIdle
    /\ FmtIdle
    /\ RunIdle
    /\ StageIdle
    /\ ConfIdle

\* optimizeDiff(diff)
Reduce ==
    /\ dpc = "input"
    /\ trace' = optimizeLoop(Split(diff), 1, <<>>, 0)
    /\ reduced' = optimizeDiff(diff)
    /\ dpc' = "once"
    /\ UNCHANGED <<diff, reducedTwice>>
    /\ UNCHANGED <<cleanVars, genVars, fmtVars, runVars, stageVars, confVars>>

\* optimizeDiff applied to its own output
ReduceAgain ==
    /\ dpc = "once"
    /\ reducedTwice' = optimizeDiff(reduced)
    /\ dpc' = "twice"
    /\ UNCHANGED <<diff, trace, reduced>>
    /\ UNCHANGED <<cleanVars, genVars, fmtVars, runVars, stageVars, confVars>>

DiffNext == Reduce \/ ReduceAgain

DiffSpec == DiffInit /\ [][DiffNext]_vars

\* the lines of the input diff
InLines == Split(diff)

\* the lines of the reducer's output
OutLines == IF reduced = <<>> THEN <<>> ELSE Split(reduced)

\* the input indices whose line was pushed to the output
Kept == {trace[k].idx : k \in 1..Len(trace)}

----------------------------------------------------------------------------
(* C1 - idempotence *)

\* C1: optimizeDiff(optimizeDiff(d)) = optimizeDiff(d) for every diff text d
C1_Idempotent == dpc = "twice" => reducedTwice = reduced

----------------------------------------------------------------------------
(* What the claims about the reducer speak of, stated on the input text *)

AllSpace(l) == \A k \in 1..Len(l) : IsSpace(l[k])

NoSpaces(l) == SelectSeq(l, LAMBDA c : ~IsSpace(c))

HasMarker(l) == l # <<>> /\ l[1] \in {"+", "-", " "}

\* a line that begins with diff --git, index , +++, --- or @@
StructuralLine(l) ==
    \E p \in {DiffGitPrefix, IndexPrefix, PlusPrefix, MinusPrefix, HunkPrefix} :
        Len(l) >= Len(p) /\ \A k \in 1..Len(p) : l[k] = p[k]

\* an added or removed line whose content begins with a comment marker
CommentOnlyLine(l) ==
    /\ l # <<>>
    /\ l[1] \in {"+", "-"}
    /\ \E p \in commentPatterns :
          LET c == Trim(Slice1(l))
          IN  Len(c) >= Len(p) /\ \A k \in 1..Len(p) : c[k] = p[k]

\* input lines i and i+1 are a removed line immediately followed by an added
\* line with the same non-empty content after trimming
PairAt(i) ==
    /\ i >= 1
    /\ i + 1 <= Len(InLines)
    /\ InLines[i] # <<>> /\ InLines[i][1] = "-"
    /\ InLines[i + 1] # <<>> /\ InLines[i + 1][1] = "+"
    /\ Trim(Slice1(InLines[i])) = Trim(Slice1(InLines[i + 1]))
    /\ Trim(Slice1(InLines[i])) # <<>>

\* the line pushed for input index i
TextAt(i) == trace[CHOOSE k \in 1..Len(trace) : trace[k].idx = i].text

----------------------------------------------------------------------------
(* C2 - structural lines *)

\* C2: every input line that begins with diff --git, index , +++, --- or @@
\* appears unchanged in the output of optimizeDiff
C2_StructuralLinesKept ==
    dpc \in {"once", "twice"} =>
        \A i \in 1..Len(InLines) :
            StructuralLine(InLines[i]) =>
                \E k \in 1..Len(trace) : trace[k].idx = i /\ trace[k].text = InLines[i]

----------------------------------------------------------------------------
(* C3 - paired whitespace-only changes *)

\* C3 as claimed: whenever a removed line is immediately followed by an added
\* line with the same non-empty trimmed content, neither line is in the output
C3_PairDroppedOriginal ==
    dpc \in {"once", "twice"} =>
        \A i \in 1..Len(InLines) :
            PairAt(i) => i \notin Kept /\ (i + 1) \notin Kept

\* C3 as amended: whenever a removed line that is not a --- header line is
\* immediately followed by an added line with the same non-empty trimmed
\* content, neither of the two lines is in the output
C3_PairDropped ==
    dpc \in {"once", "twice"} =>
        \A i \in 1..Len(InLines) :
            PairAt(i) /\ ~StructuralLine(InLines[i]) =>
                i \notin Kept /\ (i + 1) \notin Kept

\* a tab-indented removed line paired with a differently spaced added line
\* has been reduced
C3_Witness ==
    /\ dpc = "once"
    /\ \E i \in 1..Len(InLines) :
          /\ PairAt(i)
          /\ ~StructuralLine(InLines[i])
          /\ Slice1(InLines[i]) # Slice1(InLines[i + 1])
          /\ i \notin Kept /\ (i + 1) \notin Kept

----------------------------------------------------------------------------
(* C4 - the reducer only drops lines *)

\* a line the claim requires to survive: non-empty, not whitespace-only, not
\* an added/removed comment-only line, not one half of a paired change
MustKeep(i) ==
    /\ InLines[i] # <<>>
    /\ ~AllSpace(InLines[i])
    /\ ~CommentOnlyLine(InLines[i])
    /\ ~PairAt(i)
    /\ ~PairAt(i - 1)

\* C4: the output lines are, in order, a subsequence of the input lines (a
\* line longer than 100 characters may differ in white space), and every line
\* that must survive is in the output, unchanged when its content is shorter
\* than 100 characters
C4_OnlyReduces ==
    dpc \in {"once", "twice"} =>
        /\ OutLines = Texts(trace)
        /\ \A k \in 1..(Len(trace) - 1) : trace[k].idx < trace[k + 1].idx
        /\ \A k \in 1..Len(trace) :
              /\ trace[k].idx \in 1..Len(InLines)
              /\ \/ trace[k].text = InLines[trace[k].idx]
                 \/ /\ Len(InLines[trace[k].idx]) > LineLimit
                    /\ NoSpaces(trace[k].text) = NoSpaces(InLines[trace[k].idx])
        /\ \A i \in 1..Len(InLines) :
              MustKeep(i) =>
                  /\ i \in Kept
                  /\ Len(Slice1(InLines[i])) < LineLimit => TextAt(i) = InLines[i]

\* a diff of three lines of which one was dropped and a context line that
\* looks like a comment was kept
C4_Witness ==
    /\ dpc = "once"
    /\ Len(InLines) = 3
    /\ Cardinality(Kept) = 2
    /\ \E i \in Kept : MustKeep(i) /\ InLines[i] = <<" ", "#">>

----------------------------------------------------------------------------
(* C5 - long-line normalization *)

\* the leading white space of s
LeadingSpace(s) == IF ~HasNonSpace(s) THEN s ELSE SubSeq(s, 1, FirstNonSpace(s) - 1)

\* the claimed normalization: marker and indentation kept, trailing white
\* space stripped, interior runs of spaces collapsed
ClaimedNormalize(l) ==
    LET content == Slice1(l)
        indent == LeadingSpace(content)
        rest == SubSeq(content, Len(indent) + 1, Len(content))
    IN  IF ~HasNonSpace(content) THEN SubSeq(l, 1, 1)
        ELSE SubSeq(l, 1, 1) \o indent \o CollapseSpaces(TrimEnd(rest))

\* C5: a non-structural diff line longer than 100 characters is emitted with
\* trailing white space stripped and interior runs of spaces collapsed, its
\* marker and leading indentation unchanged; a line under 100 characters is
\* emitted untouched
C5_LongLineNormalized ==
    dpc \in {"once", "twice"} =>
        \A k \in 1..Len(trace) :
            LET l == InLines[trace[k].idx]
            IN  HasMarker(l) /\ ~StructuralLine(l) /\ ~AllSpace(l) =>
                    /\ Len(l) > LineLimit => trace[k].text = ClaimedNormalize(l)
                    /\ Len(l) < LineLimit => trace[k].text = l

----------------------------------------------------------------------------
(* C6 - blank-line compression *)

\* C6: the output of optimizeDiff never contains two consecutive blank or
\* whitespace-only lines
C6_NoTwoBlankLines ==
    dpc \in {"once", "twice"} =>
        \A k \in 1..(Len(OutLines) - 1) :
            ~(AllSpace(OutLines[k]) /\ AllSpace(OutLines[k + 1]))

\* a run of whitespace-only input lines, interrupted only by a dropped
\* comment line, of which the first was kept and the last dropped
C6_Witness ==
    /\ dpc = "once"
    /\ Len(InLines) = 3
    /\ InLines[1] = <<" ">> /\ InLines[3] = <<" ">>
    /\ CommentOnlyLine(InLines[2])
    /\ Kept = {1}

----------------------------------------------------------------------------
(* ai/providers/base.ts: response post-processing *)

\* the backtick character, which a TLA+ string cannot hold
BT == "BT"

Fence == <<BT, BT, BT>>

\* index of the first occurrence of pat in s, 0 when there is none
IndexOfSub(s, pat) ==
    LET at(k) == SubSeq(s, k, k + Len(pat) - 1) = pat
        last == Len(s) - Len(pat) + 1
    IN  IF \E k \in 1..last : at(k)
        THEN CHOOSE k \in 1..last : at(k) /\ \A j \in 1..(k - 1) : ~at(j)
        ELSE 0

RECURSIVE UnwrapFences(_)
UnwrapFences(s) ==
    LET p == IndexOfSub(s, Fence)
        rest == SubSeq(s, p + 3, Len(s))
        q == IndexOfSub(rest, Fence)
    IN  IF p = 0 \/ q = 0 THEN s
        ELSE SubSeq(s, 1, p - 1) \o SubSeq(rest, 1, q - 1)
                 \o UnwrapFences(SubSeq(rest, q + 3, Len(rest)))

\* cleaned.replace(/<fence>[\s\S]*?<fence>/g, ''): every fenced block, from its
\* opening fence to the nearest closing fence, is removed with its content
RECURSIVE RemoveFences(_)
RemoveFences(s) ==
    LET p == IndexOfSub(s, Fence)
        rest == SubSeq(s, p + 3, Len(s))
        q == IndexOfSub(rest, Fence)
    IN  IF p = 0 \/ q = 0 THEN s
        ELSE SubSeq(s, 1, p - 1) \o RemoveFences(SubSeq(rest, q + 3, Len(rest)))

\* cleaned.replace(/<tick>([^<tick>]+)<tick>/g, '$1'): a backtick, one or more characters
\* other than a backtick, and a backtick are replaced by the characters between
RECURSIVE UnwrapInline(_)
UnwrapInline(s) ==
    LET p == IndexOf(s, BT)
        rest == SubSeq(s, p + 1, Len(s))
        q == IndexOf(rest, BT)
    IN  IF p = 0 \/ q = 0 THEN s
        ELSE IF q = 1 THEN SubSeq(s, 1, p) \o UnwrapInline(rest)
        ELSE SubSeq(s, 1, p - 1) \o SubSeq(rest, 1, q - 1)
                 \o UnwrapInline(SubSeq(rest, q + 1, Len(rest)))

\* the test for a text wrapped in double or in single quotes
isQuoted(s) ==
    \/ StartsWith(s, <<"\"">>) /\ EndsWith(s, <<"\"">>)
    \/ StartsWith(s, <<"'">>) /\ EndsWith(s, <<"'">>)

StripQuotes(s) == IF isQuoted(s) THEN SliceInner(s) ELSE s

\* message.endsWith('.') ? message.slice(0, -1) : message
StripPeriod(s) == IF EndsWith(s, <<".">>) THEN DropLast(s) ELSE s

Ok(t) == [kind |-> "ok", text |-> t]
Err(m) == [kind |-> "error", prefix |-> "", msg |-> m]

EmptyMessage == "AI provider returned empty commit message"

postProcessMessageKeepPeriod(message) ==
    LET firstLine == Trim(Split(StripQuotes(UnwrapInline(RemoveFences(Trim(message)))))[1])
    IN  IF firstLine = <<>> THEN Err(EmptyMessage) ELSE Ok(firstLine)

postProcessMessage(message) ==
    LET firstLine == Trim(Split(StripQuotes(UnwrapInline(RemoveFences(Trim(message)))))[1])
    IN  IF firstLine = <<>> THEN Err(EmptyMessage) ELSE Ok(StripPeriod(firstLine))

\* the number of digits s begins with
LeadingDigits(s) ==
    IF \A k \in 1..Len(s) : IsDigit(s[k]) THEN Len(s)
    ELSE (CHOOSE k \in 1..Len(s) : ~IsDigit(s[k]) /\ \A j \in 1..(k - 1) : IsDigit(s[j])) - 1

\* group 1 of line.match(/^\d+[seps]\s*(.+)$/), <<>> when the line does not
\* match: \s* is greedy and gives back one character when nothing else is left
NumberedCapture(line, seps) ==
    LET d == LeadingDigits(line)
        rest == SubSeq(line, d + 2, Len(line))
    IN  IF d = 0 \/ Len(line) < d + 2 \/ line[d + 1] \notin seps THEN <<>>
        ELSE IF HasNonSpace(rest) THEN SubSeq(rest, FirstNonSpace(rest), Len(rest))
        ELSE SubSeq(rest, Len(rest), Len(rest))

\* the choices collected by the loop of parseMultipleChoices
RECURSIVE collectChoices(_)
collectChoices(lines) ==
    IF Len(lines) = 0 THEN <<>>
    ELSE LET capture == NumberedCapture(Trim(lines[1]), {".", ")"})
         IN  IF capture # <<>>
             THEN <<StripPeriod(Trim(capture))>> \o collectChoices(Tail(lines))
             ELSE collectChoices(Tail(lines))

parseMultipleChoices(resp) ==
    LET found == collectChoices(Split(Trim(resp)))
    IN  IF Len(found) = 0
        THEN IF postProcessMessage(resp).kind = "ok"
             THEN [kind |-> "ok", list |-> <<postProcessMessage(resp).text>>]
             ELSE postProcessMessage(resp)
        ELSE [kind |-> "ok", list |-> found]

----------------------------------------------------------------------------
(* The texts the response cleaning is run on *)

TokenPool ==
    { <<"a">>, <<".">>, <<" ">>, <<NL>>, <<BT>>, Fence, <<"\"">>, <<"'">>,
      <<"1">>, <<")">> }

TokenSeqs == UNION {[1..n -> TokenPool] : n \in 0..MaxTokens}

CleanInputs == {Concat(ts) : ts \in TokenSeqs}

CleanInit ==
    /\ cpc = "input"
    /\ text \in CleanInputs
    /\ cleaned = [kind |-> "none"]
    /\ parsed = [kind |-> "none"]
    /\ DiffIdle
    /\ GenIdle
    /\ FmtIdle
    /\ RunIdle
    /\ StageIdle
    /\ ConfIdle

\* postProcessMessage(text)
Clean ==
    /\ cpc = "input"
    /\ cleaned' = postProcessMessage(text)
    /\ cpc' = "cleaned"
    /\ UNCHANGED <<text, parsed>>
    /\ UNCHANGED <<diffVars, genVars, fmtVars, runVars, stageVars, confVars>>

\* parseMultipleChoices(text)
ParseMultiple ==
    /\ cpc = "cleaned"
    /\ parsed' = parseMultipleChoices(text)
    /\ cpc' = "parsed"
    /\ UNCHANGED <<text, cleaned>>
    /\ UNCHANGED <<diffVars, genVars, fmtVars, runVars, stageVars, confVars>>

CleanNext == Clean \/ ParseMultiple

CleanSpec == CleanInit /\ [][CleanNext]_vars

----------------------------------------------------------------------------
(* ai/providers: what generateCommitMessage returns for a backend answer *)

\* the fallback of an adapter's catch block: the error is thrown again with
\* the provider's prefix before its message
apiError(prefix, e) == [e EXCEPT !.prefix = prefix]

\* the result of postProcessMessage inside an adapter's try block
postProcessed(prefix, message) ==
    IF postProcessMessage(message).kind = "ok"
    THEN postProcessMessage(message)
    ELSE apiError(prefix, postProcessMessage(message))

\* AnthropicProvider.generateCommitMessage once the completion has arrived
anthropicResult(completion, nchoices, isDetailed) ==
    IF completion = <<>>
    THEN apiError("Anthropic API error: ", Err("Anthropic returned empty response"))
    ELSE IF isDetailed \/ nchoices > 1 THEN Ok(Trim(completion))
    ELSE postProcessed("Anthropic API error: ", completion)

\* OpenAIProvider.generateCommitMessage once the completion has arrived
openaiResult(message, nchoices, isDetailed) ==
    IF message = <<>>
    THEN apiError("OpenAI API error: ", Err("OpenAI returned empty response"))
    ELSE postProcessed("OpenAI API error: ", message)

\* GeminiProvider.generateCommitMessage once a complete candidate has arrived
geminiResult(txt, nchoices, isDetailed) ==
    IF txt = <<>> \/ Trim(txt) = <<>>
    THEN apiError("Gemini API error: ", Err("Gemini returned empty response"))
    ELSE postProcessed("Gemini API error: ", txt)

\* ZAIProvider.generateCommitMessage once the completion has arrived
zaiResult(message, nchoices, isDetailed) ==
    IF message = <<>>
    THEN apiError("ZAI API error: ", Err("ZAI returned empty response"))
    ELSE IF isDetailed \/ nchoices > 1 THEN Ok(Trim(message))
    ELSE postProcessed("ZAI API error: ", message)

----------------------------------------------------------------------------
(* ai/providers: the catch blocks of generateCommitMessage *)

\* the messages of the errors a backend client throws, and the codes each of
\* them contains as a substring
CodesIn(m) ==
    CASE m = "401 invalid_api_key" -> {"invalid_api_key"}
      [] m = "429 insufficient_quota" -> {"insufficient_quota", "429"}
      [] m = "404 model_not_found" -> {"model_not_found"}
      [] m = "400 model_not_supported" -> {"model_not_supported"}
      [] m = "429 rate_limit_exceeded" -> {"rate_limit", "429"}
      [] m = "429 rate_limit_error" -> {"rate_limit", "429"}
      [] m = "400 API_KEY_INVALID" -> {"API_KEY_INVALID"}
      [] m = "429 QUOTA_EXCEEDED" -> {"QUOTA_EXCEEDED", "429"}
      [] m = "404 MODEL_NOT_FOUND" -> {"MODEL_NOT_FOUND"}
      [] m = "429 RATE_LIMIT_EXCEEDED" -> {"RATE_LIMIT_EXCEEDED", "429"}
      [] OTHER -> {}

\* error.message.includes(code)
includes(m, code) == code \in CodesIn(m)

InvalidAnthropicKey == "Invalid Anthropic API key. Please check your API key."
AnthropicQuota == "Anthropic API quota exceeded. Please check your billing settings."
AnthropicModel == "Anthropic model not supported. Please check the model name."
AnthropicRateLimit == "Anthropic API rate limit exceeded. Please try again later."

\* the catch block of AnthropicProvider.generateCommitMessage
anthropicCatch(e) ==
    IF includes(e.msg, "invalid_api_key") THEN Err(InvalidAnthropicKey)
    ELSE IF includes(e.msg, "insufficient_quota") THEN Err(AnthropicQuota)
    ELSE IF includes(e.msg, "model_not_supported") THEN Err(AnthropicModel)
    ELSE IF includes(e.msg, "rate_limit") THEN Err(AnthropicRateLimit)
    ELSE apiError("Anthropic API error: ", e)

OpenAIQuota == "OpenAI API quota exceeded. Please check your billing settings."
InvalidOpenAIKey == "Invalid OpenAI API key. Please check your API key."
OpenAIModel == "OpenAI model not found. Please check the model name."

\* the catch block of OpenAIProvider.generateCommitMessage
openaiCatch(e) ==
    IF includes(e.msg, "insufficient_quota") THEN Err(OpenAIQuota)
    ELSE IF includes(e.msg, "invalid_api_key") THEN Err(InvalidOpenAIKey)
    ELSE IF includes(e.msg, "model_not_found") THEN Err(OpenAIModel)
    ELSE apiError("OpenAI API error: ", e)

InvalidGeminiKey == "Invalid Gemini API key. Please check your API key."
GeminiQuota == "Gemini API quota exceeded. Please check your billing settings."
GeminiModel == "Gemini model not found. Please check the model name."
GeminiRateLimit == "Gemini API rate limit exceeded. Please try again later."

\* the catch block of GeminiProvider.generateCommitMessage
geminiCatch(e) ==
    IF includes(e.msg, "API_KEY_INVALID") THEN Err(InvalidGeminiKey)
    ELSE IF includes(e.msg, "QUOTA_EXCEEDED") THEN Err(GeminiQuota)
    ELSE IF includes(e.msg, "MODEL_NOT_FOUND") THEN Err(GeminiModel)
    ELSE IF includes(e.msg, "RATE_LIMIT_EXCEEDED") THEN Err(GeminiRateLimit)
    ELSE apiError("Gemini API error: ", e)

ZAI429 == "ZAI API error (429): This might indicate: insufficient balance, rate limiting, or wrong API endpoint."
InvalidZAIKey == "Invalid ZAI API key. Please check your ZAI_API_KEY environment variable."
ZAIModel == "ZAI model not found. Available models: glm-4.6, glm-4.5-air"

\* the catch block of ZAIProvider.generateCommitMessage
zaiCatch(e) ==
    IF includes(e.msg, "429") THEN Err(ZAI429)
    ELSE IF includes(e.msg, "invalid_api_key") THEN Err(InvalidZAIKey)
    ELSE IF includes(e.msg, "model_not_found") THEN Err(ZAIModel)
    ELSE apiError("ZAI API error: ", e)

\* new Error('Gemini blocked the request: ' + promptFeedback.blockReason)
GeminiBlocked(blockReason) ==
    CASE blockReason = "SAFETY" -> "Gemini blocked the request: SAFETY"
      [] blockReason = "OTHER" -> "Gemini blocked the request: OTHER"

----------------------------------------------------------------------------
(* ai/providers: generateCommitMessage, the backend call included *)

\* the backend call came back with a text
Answered == [kind |-> "text", shape |-> "", msg |-> ""]

\* the backend client threw an Error with this message; shape tells what the
\* backend meant by it
Thrown(shape, m) == [kind |-> "error", shape |-> shape, msg |-> m]

\* the backend client threw something that is not an Error
ThrownOther == [kind |-> "other", shape |-> "", msg |-> ""]

\* the Gemini response carries promptFeedback.blockReason
Blocked(blockReason) == [kind |-> "blocked", shape |-> "blocked", msg |-> blockReason]

\* the errors of each backend's client, by what they mean
NativeErrors(p) ==
    CASE p \in {"openai", "zai"} ->
            { Thrown("credential", "401 invalid_api_key"),
              Thrown("quota", "429 insufficient_quota"),
              Thrown("model", "404 model_not_found"),
              Thrown("rate", "429 rate_limit_exceeded"),
              Thrown("network", "ECONNRESET") }
      [] p = "anthropic" ->
            { Thrown("credential", "401 invalid_api_key"),
              Thrown("quota", "429 insufficient_quota"),
              Thrown("model", "400 model_not_supported"),
              Thrown("rate", "429 rate_limit_error"),
              Thrown("network", "ECONNRESET") }
      [] p = "gemini" ->
            { Thrown("credential", "400 API_KEY_INVALID"),
              Thrown("quota", "429 QUOTA_EXCEEDED"),
              Thrown("model", "404 MODEL_NOT_FOUND"),
              Thrown("rate", "429 RATE_LIMIT_EXCEEDED"),
              Thrown("network", "ECONNRESET") }

\* the ways a call to the backend of adapter p fails
NativeFailures(p) ==
    NativeErrors(p) \cup {ThrownOther}
        \cup (IF p = "gemini" THEN {Blocked("SAFETY"), Blocked("OTHER")} ELSE {})

anthropicGenerate(nat, completion, nchoices, isDetailed) ==
    CASE nat.kind = "error" -> anthropicCatch(Err(nat.msg))
      [] nat.kind = "other" -> Err("Unknown Anthropic error")
      [] OTHER -> anthropicResult(completion, nchoices, isDetailed)

openaiGenerate(nat, completion, nchoices, isDetailed) ==
    CASE nat.kind = "error" -> openaiCatch(Err(nat.msg))
      [] nat.kind = "other" -> Err("Unknown OpenAI error")
      [] OTHER -> openaiResult(completion, nchoices, isDetailed)

geminiGenerate(nat, txt, nchoices, isDetailed) ==
    CASE nat.kind = "error" -> geminiCatch(Err(nat.msg))
      [] nat.kind = "other" -> Err("Unknown Gemini error")
      [] nat.kind = "blocked" -> geminiCatch(Err(GeminiBlocked(nat.msg)))
      [] OTHER -> geminiResult(txt, nchoices, isDetailed)

zaiGenerate(nat, completion, nchoices, isDetailed) ==
    CASE nat.kind = "error" -> zaiCatch(Err(nat.msg))
      [] nat.kind = "other" -> Err("Unknown ZAI error")
      [] OTHER -> zaiResult(completion, nchoices, isDetailed)

----------------------------------------------------------------------------
(* cli.ts: runCLI's handling of the generated text *)

ParseFailed == "Failed to parse multiple choices from AI response"

\* commitMessage.split('\n').map(...).filter(...): group 1 of
\* /^\d+\.\s*(.+)$/ for every line that matches
RECURSIVE cliChoices(_)
cliChoices(lines) ==
    IF Len(lines) = 0 THEN <<>>
    ELSE LET capture == NumberedCapture(lines[1], {"."})
         IN  IF Len(capture) > 0
             THEN <<capture>> \o cliChoices(Tail(lines))
             ELSE cliChoices(Tail(lines))

----------------------------------------------------------------------------
(* The generation run: one request to one adapter, then runCLI's parsing *)

Providers == {"anthropic", "openai", "gemini", "zai"}

\* options.choices: absent (0) or a number the --choices option accepts
ChoiceValues == {0, 2, 3}

RespLinePool ==
    { <<"1", ".", " ", "a">>,
      <<"2", ".", " ", "b">>,
      <<"3", ".", " ", "c", ".">>,
      <<"2", ")", " ", "b">>,
      <<"a", " ", "b">>,
      <<>> }

RespLineSeqs == UNION {[1..n -> RespLinePool] : n \in 0..MaxRespLines}

Responses == {Join(ls) : ls \in RespLineSeqs}

GenInit ==
    /\ gpc = "request"
    /\ provider \in Providers
    /\ choices \in ChoiceValues
    /\ detailed \in BOOLEAN
    /\ \/ native = Answered /\ response \in Responses
       \/ native \in NativeFailures(provider) /\ response = <<>>
    /\ returned = [kind |-> "none"]
    /\ allChoices = <<>>
    /\ cliError = ""
    /\ DiffIdle
    /\ CleanIdle
    /\ FmtIdle
    /\ RunIdle
    /\ StageIdle
    /\ ConfIdle

AnthropicGenerate ==
    /\ gpc = "request"
    /\ provider = "anthropic"
    /\ returned' = anthropicGenerate(native, response, choices, detailed)
    /\ gpc' = "returned"
    /\ UNCHANGED <<provider, choices, detailed, response, native, allChoices, cliError>>
    /\ UNCHANGED <<diffVars, cleanVars, fmtVars, runVars, stageVars, confVars>>

OpenAIGenerate ==
    /\ gpc = "request"
    /\ provider = "openai"
    /\ returned' = openaiGenerate(native, response, choices, detailed)
    /\ gpc' = "returned"
    /\ UNCHANGED <<provider, choices, detailed, response, native, allChoices, cliError>>
    /\ UNCHANGED <<diffVars, cleanVars, fmtVars, runVars, stageVars, confVars>>

GeminiGenerate ==
    /\ gpc = "request"
    /\ provider = "gemini"
    /\ returned' = geminiGenerate(native, response, choices, detailed)
    /\ gpc' = "returned"
    /\ UNCHANGED <<provider, choices, detailed, response, native, allChoices, cliError>>
    /\ UNCHANGED <<diffVars, cleanVars, fmtVars, runVars, stageVars, confVars>>

ZAIGenerate ==
    /\ gpc = "request"
    /\ provider = "zai"
    /\ returned' = zaiGenerate(native, response, choices, detailed)
    /\ gpc' = "returned"
    /\ UNCHANGED <<provider, choices, detailed, response, native, allChoices, cliError>>
    /\ UNCHANGED <<diffVars, cleanVars, fmtVars, runVars, stageVars, confVars>>

\* runCLI: the adapter threw, the error is passed on
GenerationFailed ==
    /\ gpc = "returned"
    /\ returned.kind = "error"
    /\ cliError' = returned.msg
    /\ gpc' = "failed"
    /\ UNCHANGED <<provider, choices, detailed, response, native, returned, allChoices>>
    /\ UNCHANGED <<diffVars, cleanVars, fmtVars, runVars, stageVars, confVars>>

\* runCLI: the numbered choices are parsed from the returned text when more
\* than one was asked for
ParseChoices ==
    /\ gpc = "returned"
    /\ returned.kind = "ok"
    /\ IF choices > 1
       THEN /\ allChoices' = cliChoices(Split(returned.text))
            /\ IF Len(cliChoices(Split(returned.text))) = 0
               THEN cliError' = ParseFailed /\ gpc' = "failed"
               ELSE cliError' = "" /\ gpc' = "parsed"
       ELSE /\ allChoices' = <<>>
            /\ cliError' = ""
            /\ gpc' = "parsed"
    /\ UNCHANGED <<provider, choices, detailed, response, native, returned>>
    /\ UNCHANGED <<diffVars, cleanVars, fmtVars, runVars, stageVars, confVars>>

GenNext ==
    \/ AnthropicGenerate
    \/ OpenAIGenerate
    \/ GeminiGenerate
    \/ ZAIGenerate
    \/ GenerationFailed
    \/ ParseChoices

GenSpec == GenInit /\ [][GenNext]_vars

----------------------------------------------------------------------------
(* C7 - what an adapter returns *)

\* C7: for every adapter, on a successful call generateCommitMessage returns
\* the trimmed backend text when detailed is true or more than one choice was
\* asked for, and the post-processed single message otherwise
C7_AdapterReturn ==
    gpc \in {"returned", "parsed", "failed"} /\ Trim(response) # <<>> =>
        IF detailed \/ choices > 1
        THEN returned = Ok(Trim(response))
        ELSE IF postProcessMessage(response).kind = "ok"
             THEN returned = postProcessMessage(response)
             ELSE returned.kind = "error"

----------------------------------------------------------------------------
(* C8, C9 - multi-choice parsing *)

\* the candidates the claims speak of: for every line of the form digits,
\* '.' or ')', optional white space, at least one character, the remainder
\* trimmed and with one trailing period removed
RECURSIVE ClaimedChoices(_)
ClaimedChoices(lines) ==
    IF Len(lines) = 0 THEN <<>>
    ELSE LET capture == NumberedCapture(lines[1], {".", ")"})
         IN  IF capture # <<>>
             THEN <<StripPeriod(Trim(capture))>> \o ClaimedChoices(Tail(lines))
             ELSE ClaimedChoices(Tail(lines))

\* C8: when several candidates were asked for and no line of the text is in
\* the numbered-list form, the candidate list is the single message that
\* clean makes of the whole text, and the invocation fails only if clean fails
C8_FallbackToClean ==
    /\ gpc \in {"parsed", "failed"}
    /\ choices > 1
    /\ returned.kind = "ok"
    /\ ClaimedChoices(Split(returned.text)) = <<>>
    => IF postProcessMessage(returned.text).kind = "ok"
       THEN gpc = "parsed" /\ allChoices = <<postProcessMessage(returned.text).text>>
       ELSE gpc = "failed"

\* C9: multi-choice parsing returns, in line order, one candidate for every
\* line of the numbered-list form (with '.' or ')'), trimmed and with one
\* trailing period removed, duplicates kept
C9_ChoicesInLineOrder ==
    /\ gpc \in {"parsed", "failed"}
    /\ choices > 1
    /\ returned.kind = "ok"
    /\ ClaimedChoices(Split(returned.text)) # <<>>
    => gpc = "parsed" /\ allChoices = ClaimedChoices(Split(returned.text))

----------------------------------------------------------------------------
(* C10 - single-message cleaning *)

\* the claimed cleaning: as postProcessMessage, but a fenced block loses its
\* fences only
ClaimedClean(message) ==
    LET firstLine == Trim(Split(StripQuotes(UnwrapInline(UnwrapFences(Trim(message)))))[1])
    IN  IF firstLine = <<>> THEN Err(EmptyMessage) ELSE Ok(StripPeriod(firstLine))

\* C10: postProcessMessage returns the first line of the text after trimming,
\* stripping the fences of fenced blocks (their content kept), unwrapping
\* inline code and removing one layer of surrounding quotes, that line trimmed
\* and one trailing period removed; it fails exactly when that line is empty
C10_Clean ==
    cpc \in {"cleaned", "parsed"} => cleaned = ClaimedClean(text)

----------------------------------------------------------------------------
(* formatCommitMessage and validateConventionalCommit *)

\* largest number of lines after the header of a message handed to the
\* formatter
MaxBodyLines == 3

Dash == <<"-">>
Period == <<".">>

\* lines.some((line, index) => index > 0 && line.trim().startsWith('-'))
isDetailedCommit(lines) ==
    \E i \in 2..Len(lines) : StartsWith(Trim(lines[i]), Dash)

\* lines.map((line) => line.trimEnd())
mapTrimEnd(lines) == [i \in 1..Len(lines) |-> TrimEnd(lines[i])]

\* lines.map((line) => line.trim())
mapTrim(lines) == [i \in 1..Len(lines) |-> Trim(lines[i])]

\* detailed branch, first while loop: shift while the first line is a
\* non-empty string that trims to ''
RECURSIVE shiftBlankDetailed(_)
shiftBlankDetailed(cleanedLines) ==
    IF Len(cleanedLines) > 0 /\ cleanedLines[1] # <<>> /\ Trim(cleanedLines[1]) = <<>>
    THEN shiftBlankDetailed(Tail(cleanedLines))
    ELSE cleanedLines

\* detailed branch, second while loop: pop while the last line is a
\* non-empty string that trims to ''
RECURSIVE popBlankDetailed(_)
popBlankDetailed(cleanedLines) ==
    IF /\ Len(cleanedLines) > 0
       /\ cleanedLines[Len(cleanedLines)] # <<>>
       /\ Trim(cleanedLines[Len(cleanedLines)]) = <<>>
    THEN popBlankDetailed(DropLast(cleanedLines))
    ELSE cleanedLines

\* detailed branch: cleanedLines.splice(1, 0, '') when the second line is a
\* bullet
insertBlankAfterHeader(cleanedLines) ==
    IF /\ Len(cleanedLines) >= 2
       /\ cleanedLines[1] # <<>>
       /\ Trim(cleanedLines[1]) # <<>>
       /\ cleanedLines[2] # <<>>
       /\ StartsWith(Trim(cleanedLines[2]), Dash)
       /\ Trim(cleanedLines[2]) # <<>>
    THEN <<cleanedLines[1], <<>>>> \o Tail(cleanedLines)
    ELSE cleanedLines

\* simple branch: shift while the first line is ''
RECURSIVE shiftEmpty(_)
shiftEmpty(cleanedLines) ==
    IF Len(cleanedLines) > 0 /\ cleanedLines[1] = <<>>
    THEN shiftEmpty(Tail(cleanedLines))
    ELSE cleanedLines

\* simple branch: pop while the last line is ''
RECURSIVE popEmpty(_)
popEmpty(cleanedLines) ==
    IF Len(cleanedLines) > 0 /\ cleanedLines[Len(cleanedLines)] = <<>>
    THEN popEmpty(DropLast(cleanedLines))
    ELSE cleanedLines

\* both branches: the first line loses one trailing period
stripHeaderPeriod(cleanedLines) ==
    IF /\ Len(cleanedLines) > 0
       /\ cleanedLines[1] # <<>>
       /\ EndsWith(cleanedLines[1], Period)
    THEN <<DropLast(cleanedLines[1])>> \o Tail(cleanedLines)
    ELSE cleanedLines

formatCommitMessage(m) ==
    LET lines == Split(Trim(m))
    IN  IF isDetailedCommit(lines)
        THEN Join(stripHeaderPeriod(insertBlankAfterHeader(
                 popBlankDetailed(shiftBlankDetailed(mapTrimEnd(lines))))))
        ELSE Join(stripHeaderPeriod(popEmpty(shiftEmpty(mapTrim(lines)))))

\* the alternation of conventionalPattern
CommitTypes ==
    { <<"f", "e", "a", "t">>,
      <<"f", "i", "x">>,
      <<"d", "o", "c", "s">>,
      <<"s", "t", "y", "l", "e">>,
      <<"r", "e", "f", "a", "c", "t", "o", "r">>,
      <<"p", "e", "r", "f">>,
      <<"t", "e", "s", "t">>,
      <<"c", "h", "o", "r", "e">>,
      <<"c", "i">>,
      <<"b", "u", "i", "l", "d">>,
      <<"r", "e", "v", "e", "r", "t">> }

\* ': .{1,50}' matched at position k of r; the pattern is not anchored at its
\* end, so one character other than a line break is enough
colonDescription(r, k) ==
    /\ Len(r) >= k + 2
    /\ r[k] = ":"
    /\ r[k + 1] = " "
    /\ r[k + 2] # NL

\* '(\(.+\))?' followed by ': .{1,50}', matched at the start of r: the group
\* is absent, or it is '(' , one or more characters other than a line break,
\* and any ')' further on
scopeAndDescription(r) ==
    \/ colonDescription(r, 1)
    \/ /\ Len(r) >= 1
       /\ r[1] = "("
       /\ \E j \in 3..Len(r) :
             /\ r[j] = ")"
             /\ \A i \in 2..(j - 1) : r[i] # NL
             /\ colonDescription(r, j + 1)

\* conventionalPattern.test(message)
conventionalPattern(m) ==
    \E t \in CommitTypes :
        StartsWith(m, t) /\ scopeAndDescription(SubSeq(m, Len(t) + 1, Len(m)))

\* firstLine.length > 72 is rejected
FirstLineLimit == 72

EmptyCommit == "Commit message cannot be empty"
NotConventional == "Commit message does not follow conventional commit format. Expected: type(scope): description"
FirstLineTooLong == "First line of commit message should be 72 characters or less"

Valid == [valid |-> TRUE, error |-> ""]
Invalid(e) == [valid |-> FALSE, error |-> e]

validateConventionalCommit(m) ==
    IF Trim(m) = <<>> THEN Invalid(EmptyCommit)
    ELSE IF ~conventionalPattern(m) THEN Invalid(NotConventional)
    ELSE IF Split(m)[1] # <<>> /\ Len(Split(m)[1]) > FirstLineLimit
    THEN Invalid(FirstLineTooLong)
    ELSE Valid

----------------------------------------------------------------------------
(* The formatting run: formatCommitMessage and validateConventionalCommit   *)
(* applied to one message                                                  *)

Xs(n) == [k \in 1..n |-> "x"]

HeaderPool ==
    { <<"f", "e", "a", "t", ":", " ", "a">>,
      <<"f", "e", "a", "t", ":", " ", "a", ".">>,
      <<"f", "e", "a", "t", ":", " ", "a", ".", ".">>,
      <<"f", "i", "x", "(", "s", ")", ":", " ", "a">>,
      <<"f", "e", "a", "t", "(", "a", ")", "b", ")", ":", " ", "x">>,
      <<"f", "e", "a", "t", "(", ")", ":", " ", "a">>,
      <<"f", "e", "a", "t", ":", "a">>,
      <<"f", "e", "a", "t", ":", " ">>,
      <<"F", "e", "a", "t", ":", " ", "a">>,
      <<"w", "i", "p", ":", " ", "a">>,
      <<"c", "i", ":", " ", "b">>,
      <<>>,
      <<" ">>,
      <<"f", "e", "a", "t", ":", " ">> \o Xs(FirstLineLimit - 6),
      <<"f", "e", "a", "t", ":", " ">> \o Xs(FirstLineLimit - 5),
      Xs(FirstLineLimit + 1) }

BodyLinePool ==
    { <<>>,
      <<" ">>,
      <<"-", " ", "b">>,
      <<" ", "-", " ", "b", " ">>,
      <<"c">> }

BodyLineSeqs == UNION {[1..n -> BodyLinePool] : n \in 0..MaxBodyLines}

FormatInputs == {Join(<<h>> \o ls) : h \in HeaderPool, ls \in BodyLineSeqs}

FmtInit ==
    /\ fpc = "input"
    /\ rawMessage \in FormatInputs
    /\ formatted = <<>>
    /\ validation = Valid
    /\ DiffIdle
    /\ CleanIdle
    /\ GenIdle
    /\ RunIdle
    /\ StageIdle
    /\ ConfIdle

\* formatCommitMessage(rawMessage)
Format ==
    /\ fpc = "input"
    /\ formatted' = formatCommitMessage(rawMessage)
    /\ fpc' = "formatted"
    /\ UNCHANGED <<rawMessage, validation>>
    /\ UNCHANGED <<diffVars, cleanVars, genVars, runVars, stageVars, confVars>>

\* validateConventionalCommit(rawMessage)
Validate ==
    /\ fpc = "formatted"
    /\ validation' = validateConventionalCommit(rawMessage)
    /\ fpc' = "validated"
    /\ UNCHANGED <<rawMessage, formatted>>
    /\ UNCHANGED <<diffVars, cleanVars, genVars, runVars, stageVars, confVars>>

FmtNext == Format \/ Validate

FmtSpec == FmtInit /\ [][FmtNext]_vars

----------------------------------------------------------------------------
(* C11 - the blank line between header and bullets *)

\* the lines of the trimmed message and of the formatter's result
MessageLines == Split(Trim(rawMessage))
FormattedLines == Split(formatted)

isBullet(line) == StartsWith(Trim(line), Dash)

\* index of the first bullet line after the header
FirstBullet(lines) ==
    CHOOSE j \in 2..Len(lines) :
        isBullet(lines[j]) /\ \A i \in 2..(j - 1) : ~isBullet(lines[i])

\* C11: when some line after the first of the message starts with a dash
\* after trimming, exactly one blank line lies between the header and the
\* first bullet line of the formatted text, and the formatted text does not
\* end with a blank line
C11_OneBlankLineBeforeBullets ==
    fpc \in {"formatted", "validated"} /\ isDetailedCommit(MessageLines)
    => /\ isDetailedCommit(FormattedLines)
       /\ Cardinality({i \in 2..(FirstBullet(FormattedLines) - 1) :
                          Trim(FormattedLines[i]) = <<>>}) = 1
       /\ Trim(FormattedLines[Len(FormattedLines)]) # <<>>

----------------------------------------------------------------------------
(* C12 - the validation rules *)

\* rule (b) of the claim: a type, an optional parenthesized scope without
\* ')' in it, ': ' and at least one character, on the first line
ClaimedScopeAndDescription(r) ==
    \/ Len(r) >= 3 /\ r[1] = ":" /\ r[2] = " "
    \/ /\ Len(r) >= 1
       /\ r[1] = "("
       /\ \E j \in 3..Len(r) :
             /\ r[j] = ")"
             /\ \A i \in 2..(j - 1) : r[i] # ")"
             /\ Len(r) >= j + 3 /\ r[j + 1] = ":" /\ r[j + 2] = " "

ClaimedPattern(firstLine) ==
    \E t \in CommitTypes :
        /\ StartsWith(firstLine, t)
        /\ ClaimedScopeAndDescription(SubSeq(firstLine, Len(t) + 1, Len(firstLine)))

ClaimedValidation(m) ==
    IF Trim(m) = <<>> THEN Invalid(EmptyCommit)
    ELSE IF ~ClaimedPattern(Split(m)[1]) THEN Invalid(NotConventional)
    ELSE IF Len(Split(m)[1]) > FirstLineLimit THEN Invalid(FirstLineTooLong)
    ELSE Valid

\* C12: validateConventionalCommit accepts exactly the non-empty messages
\* whose first line is a type, an optional scope in parentheses containing
\* no ')', ': ' and a description, and is at most 72 characters long; a
\* rejected message carries the error of the first rule that fails
C12_ValidationRules ==
    fpc = "validated" => validation = ClaimedValidation(rawMessage)

----------------------------------------------------------------------------
(* C19, C20 - the error an adapter surfaces for a failed backend call *)

\* the category of a surfaced error: the fallback of a catch block is known
\* by its prefix, the others by their message
Category(e) ==
    IF e.kind # "error" THEN "none"
    ELSE IF e.prefix # "" THEN "unknown"
    ELSE IF e.msg \in {InvalidAnthropicKey, InvalidOpenAIKey, InvalidGeminiKey, InvalidZAIKey}
    THEN "invalid-credential"
    ELSE IF e.msg \in {AnthropicQuota, OpenAIQuota, GeminiQuota} THEN "quota-exceeded"
    ELSE IF e.msg \in {AnthropicModel, OpenAIModel, GeminiModel, ZAIModel} THEN "model-not-found"
    ELSE IF e.msg \in {AnthropicRateLimit, GeminiRateLimit} THEN "rate-limited"
    ELSE IF e.msg \in {GeminiBlocked("SAFETY"), GeminiBlocked("OTHER")} THEN "content-blocked"
    ELSE "other"

Categories ==
    { "invalid-credential", "quota-exceeded", "model-not-found", "rate-limited",
      "content-blocked", "unknown" }

\* C19: for every adapter, a native rate-limit error is surfaced as
\* rate-limited and a native quota error as quota-exceeded, and every native
\* error is surfaced in one of the six categories
C19_ErrorCategories ==
    gpc # "request" /\ native.kind = "error"
    => /\ native.shape = "rate" => Category(returned) = "rate-limited"
       /\ native.shape = "quota" => Category(returned) = "quota-exceeded"
       /\ Category(returned) \in Categories

\* C20: when Gemini's prompt feedback carries a block reason, the adapter
\* surfaces the content-blocked error, and not the fallback that wraps the
\* message of an unrecognized failure
C20_BlockedIsDistinct ==
    gpc # "request" /\ provider = "gemini" /\ native.kind = "blocked"
    => Category(returned) = "content-blocked"

----------------------------------------------------------------------------
(* cli.ts, config and ai/index.ts: the steps of runCLI *)

\* largest number of lines of a backend response in a run of runCLI
MaxRunLines == 3

\* largest number of answers read by selectCommitMessage
MaxReads == 3

\* getSupportedProviders() and the provider enum of ConfigSchema
SupportedProviders == {"openai", "anthropic", "gemini"}

\* a Gemini key shorter than this is rejected
GeminiKeyLength == 30

\* provider.validateConfig()
validateConfig(p, key) ==
    IF key = <<>> \/ Trim(key) = <<>> THEN FALSE
    ELSE CASE p = "openai" -> StartsWith(key, <<"s", "k", "-">>)
           [] p = "anthropic" -> StartsWith(key, <<"s", "k", "-", "a", "n", "t", "-">>)
           [] p = "gemini" -> Len(key) >= GeminiKeyLength
           [] OTHER -> TRUE

ConfigInvalid == "Configuration validation failed: provider: Invalid enum value"
ApiKeyNotFound == "API key not found. Please set the environment variable or add it to your config file."
UnsupportedProvider == "Unsupported provider. Supported providers: openai, anthropic, gemini"
UnsupportedModel == "Model is not supported by the provider"
InvalidProviderConfig == "Invalid configuration for the provider."

\* config/index.ts validateApiKey
validateApiKey(p, key) ==
    IF key = <<>> THEN Invalid(ApiKeyNotFound) ELSE Valid

\* ai/index.ts validateProviderConfig
validateProviderConfig(p, modelOk, key) ==
    IF p \notin SupportedProviders THEN Invalid(UnsupportedProvider)
    ELSE IF ~modelOk THEN Invalid(UnsupportedModel)
    ELSE IF key = <<>> THEN Invalid(ApiKeyNotFound)
    ELSE IF ~validateConfig(p, key) THEN Invalid(InvalidProviderConfig)
    ELSE Valid

\* a validation of runCLI that is ignored
afterValidationIgnored(v, next) == next

\* if (!v.valid) throw new Error(v.error): the position after a validation
afterValidation(v, next) == IF v.valid THEN next ELSE "failed"

\* createAIProvider(config).generateCommitMessage(diff, description, choices)
generateCommitMessage(p, nat, completion, nchoices, isDetailed) ==
    CASE p = "openai" -> openaiGenerate(nat, completion, nchoices, isDetailed)
      [] p = "anthropic" -> anthropicGenerate(nat, completion, nchoices, isDetailed)
      [] p = "gemini" -> geminiGenerate(nat, completion, nchoices, isDetailed)

\* an error of generateCommitMessage that is dropped
generationOutcomeSwallowed(r) == "generated"

\* the catch around generateCommitMessage throws the error again
generationOutcome(r) == IF r.kind = "error" THEN "failed" ELSE "generated"

DigitValue(c) ==
    CASE c = "0" -> 0 [] c = "1" -> 1 [] c = "2" -> 2 [] c = "3" -> 3 [] c = "4" -> 4
      [] c = "5" -> 5 [] c = "6" -> 6 [] c = "7" -> 7 [] c = "8" -> 8 [] c = "9" -> 9

RECURSIVE NumberOf(_)
NumberOf(digits) ==
    IF Len(digits) = 0 THEN 0
    ELSE 10 * NumberOf(DropLast(digits)) + DigitValue(digits[Len(digits)])

NaN == [nan |-> TRUE, value |-> 0]

\* parseInt(answer, 10): leading white space is skipped, a sign is accepted,
\* the digits up to the first other character are the number, and what
\* follows them is ignored
parseInt(answer) ==
    LET t == IF HasNonSpace(answer)
             THEN SubSeq(answer, FirstNonSpace(answer), Len(answer))
             ELSE <<>>
        signed == Len(t) > 0 /\ t[1] \in {"+", "-"}
        u == IF signed THEN Tail(t) ELSE t
        d == LeadingDigits(u)
    IN  IF d = 0 THEN NaN
        ELSE [nan |-> FALSE,
              value |-> IF signed /\ t[1] = "-"
                        THEN 0 - NumberOf(SubSeq(u, 1, d))
                        ELSE NumberOf(SubSeq(u, 1, d))]

\* isNaN(choice) || choice < 1 || choice > choices.length
rejectedAnswer(answer, n) ==
    parseInt(answer).nan \/ parseInt(answer).value < 1 \/ parseInt(answer).value > n

\* Logger.log: a warning is written unless --quiet has set the level to ERROR
Warning(txt, detail) == [level |-> "warn", text |-> txt, detail |-> detail]
ErrorEntry(txt) == [level |-> "error", text |-> txt, detail |-> ""]

MayNotFollow == "Generated message may not follow conventional commit format: "
UsingAnyway == "Using the message anyway..."

warn(log, opts, entry) == IF opts.quiet THEN log ELSE Append(log, entry)

\* cli.ts 246-251: the warnings about a rejected message
warnInvalid(log, opts, v) ==
    IF ~v.valid /\ ~opts.dryRun
    THEN warn(warn(log, opts, Warning(MayNotFollow, v.error)), opts, Warning(UsingAnyway, ""))
    ELSE log

\* the result message is always the formatted message
resultMessageFormatted(opts, nchoices, display, fmt) == fmt

\* cli.ts 254-274: the message that is written to the output
resultMessage(opts, nchoices, display, fmt) ==
    IF opts.json
    THEN IF nchoices > 1 THEN display ELSE fmt
    ELSE IF nchoices > 1 /\ opts.dryRun THEN display ELSE fmt

\* every run creates a commit
shouldCommitAlways(opts) == TRUE

\* no run creates a commit
shouldCommitNever(opts) == FALSE

\* cli.ts 282: a commit is created unless --dry-run is given
shouldCommit(opts) == ~opts.dryRun

\* the process exits without a word
actionCatchSilent(log, e) == [logged |-> log, exitCode |-> 1]

\* cli.ts 70-77: the message of the error is logged and the process exits
\* with code 1
actionCatch(log, e) == [logged |-> Append(log, ErrorEntry(e)), exitCode |-> 1]

NotARepository == "Not a git repository. Please run this command from within a git repository."
NoStagedChanges == "No staged changes found. Please stage your changes with git add before running this command."
NoStagedFiles == "No staged files found. Please stage your changes with git add before running this command."
AllExcluded == "All staged files were excluded by patterns. Please adjust your exclusion patterns."
GitFailed == "Git operation failed"
CommitFailed == "Failed to create commit"
ProviderKeyNotFound == "API key not found for provider"
UnsupportedAIProvider == "Unsupported AI provider"

----------------------------------------------------------------------------
(* One run of runCLI *)

Key(n) == [k \in 1..n |-> "k"]

ApiKeyPool ==
    { <<>>,
      <<" ">>,
      Key(3),
      <<"s", "k", "-", "x">>,
      <<"s", "k", "-", "a", "n", "t", "-", "x">>,
      Key(GeminiKeyLength) }

RunLinePool ==
    { <<"1", ".", " ", "f", "e", "a", "t", ":", " ", "a">>,
      <<"2", ".", " ", "c">>,
      <<"f", "e", "a", "t", ":", " ", "a">>,
      <<>> }

RunLineSeqs == UNION {[1..n -> RunLinePool] : n \in 0..MaxRunLines}

RunResponses == {Join(ls) : ls \in RunLineSeqs}

AnswerPool ==
    { <<"1">>, <<"2">>, <<"3">>, <<"4">>, <<"0">>, <<>>, <<"x">>,
      <<"2", "x">>, <<" ", "1">>, <<"-", "1">> }

RunInit ==
    /\ rpc = "start"
    /\ provider \in Providers
    /\ choices \in ChoiceValues
    /\ options \in [dryRun : BOOLEAN, json : BOOLEAN, quiet : BOOLEAN]
    /\ apiKey \in ApiKeyPool
    /\ modelSupported \in BOOLEAN
    /\ gpc = "idle"
    /\ detailed = FALSE
    /\ response = <<>>
    /\ native = [kind |-> "none", shape |-> "", msg |-> ""]
    /\ returned = [kind |-> "none"]
    /\ allChoices = <<>>
    /\ cliError = ""
    /\ netCalls = 0
    /\ reads = 0
    /\ lastAnswer = <<>>
    /\ selectedMessage = <<>>
    /\ displayMessage = <<>>
    /\ messageForValidation = <<>>
    /\ formattedMessage = <<>>
    /\ messageValidation = Valid
    /\ logged = <<>>
    /\ output = <<>>
    /\ commits = <<>>
    /\ exitCode = -1
    /\ DiffIdle
    /\ CleanIdle
    /\ FmtIdle
    /\ StageIdle
    /\ ConfIdle

configVars == <<gpc, provider, choices, detailed, options, apiKey, modelSupported>>

\* cli.ts 96-103: validateRepository()
ValidateRepository ==
    /\ rpc = "start"
    /\ \E v \in {Valid, Invalid(NotARepository), Invalid(NoStagedChanges)} :
          /\ rpc' = afterValidation(v, "repository")
          /\ cliError' = v.error
    /\ UNCHANGED <<configVars, response, native, returned, allChoices, netCalls, reads,
                   lastAnswer, selectedMessage, displayMessage, messageForValidation,
                   formattedMessage, messageValidation, logged, output, commits, exitCode>>
    /\ UNCHANGED <<diffVars, cleanVars, fmtVars, stageVars, confVars>>

\* cli.ts 105-114: loadConfig(options), whose schema knows three providers
LoadConfig ==
    /\ rpc = "repository"
    /\ IF provider \in SupportedProviders
       THEN rpc' = "config" /\ cliError' = ""
       ELSE rpc' = "failed" /\ cliError' = ConfigInvalid
    /\ UNCHANGED <<configVars, response, native, returned, allChoices, netCalls, reads,
                   lastAnswer, selectedMessage, displayMessage, messageForValidation,
                   formattedMessage, messageValidation, logged, output, commits, exitCode>>
    /\ UNCHANGED <<diffVars, cleanVars, fmtVars, stageVars, confVars>>

\* cli.ts 129-135: validateApiKey(config)
ValidateApiKey ==
    /\ rpc = "config"
    /\ rpc' = afterValidation(validateApiKey(provider, apiKey), "apiKey")
    /\ cliError' = validateApiKey(provider, apiKey).error
    /\ UNCHANGED <<configVars, response, native, returned, allChoices, netCalls, reads,
                   lastAnswer, selectedMessage, displayMessage, messageForValidation,
                   formattedMessage, messageValidation, logged, output, commits, exitCode>>
    /\ UNCHANGED <<diffVars, cleanVars, fmtVars, stageVars, confVars>>

\* cli.ts 137-143: validateProviderConfig(config)
ValidateProviderConfig ==
    /\ rpc = "apiKey"
    /\ rpc' = afterValidation(validateProviderConfig(provider, modelSupported, apiKey),
                              "providerConfig")
    /\ cliError' = validateProviderConfig(provider, modelSupported, apiKey).error
    /\ UNCHANGED <<configVars, response, native, returned, allChoices, netCalls, reads,
                   lastAnswer, selectedMessage, displayMessage, messageForValidation,
                   formattedMessage, messageValidation, logged, output, commits, exitCode>>
    /\ UNCHANGED <<diffVars, cleanVars, fmtVars, stageVars, confVars>>

\* cli.ts 145-161: getStagedDiff(config.excludePatterns)
GetStagedDiff ==
    /\ rpc = "providerConfig"
    /\ \E e \in {"", NoStagedFiles, AllExcluded, GitFailed} :
          /\ rpc' = IF e = "" THEN "diff" ELSE "failed"
          /\ cliError' = e
    /\ UNCHANGED <<configVars, response, native, returned, allChoices, netCalls, reads,
                   lastAnswer, selectedMessage, displayMessage, messageForValidation,
                   formattedMessage, messageValidation, logged, output, commits, exitCode>>
    /\ UNCHANGED <<diffVars, cleanVars, fmtVars, stageVars, confVars>>

\* cli.ts 167-194: createAIProvider(config) and the one call of
\* generateCommitMessage, whose error is thrown again
GenerateCommitMessage ==
    /\ rpc = "diff"
    /\ IF apiKey = <<>> \/ provider \notin SupportedProviders
       THEN /\ rpc' = "failed"
            /\ cliError' = IF apiKey = <<>> THEN ProviderKeyNotFound ELSE UnsupportedAIProvider
            /\ UNCHANGED <<native, response, returned, netCalls>>
       ELSE /\ \E nat \in {Answered} \cup NativeFailures(provider) :
               \E completion \in IF nat = Answered THEN RunResponses ELSE {<<>>} :
                  /\ native' = nat
                  /\ response' = completion
                  /\ returned' = generateCommitMessage(provider, nat, completion,
                                                       choices, detailed)
            /\ netCalls' = netCalls + 1
            /\ rpc' = generationOutcome(returned')
            /\ cliError' = IF returned'.kind = "error" THEN returned'.msg ELSE ""
    /\ UNCHANGED <<configVars, allChoices, reads,
                   lastAnswer, selectedMessage, displayMessage, messageForValidation,
                   formattedMessage, messageValidation, logged, output, commits, exitCode>>
    /\ UNCHANGED <<diffVars, cleanVars, fmtVars, stageVars, confVars>>

\* cli.ts 196-221 and selectCommitMessage up to its first question: the
\* choices are parsed; without --dry-run and --json the user is asked, unless
\* there is one choice only
HandleChoices ==
    /\ rpc = "generated"
    /\ returned.kind = "ok"
    /\ IF choices > 1
       THEN /\ allChoices' = cliChoices(Split(returned.text))
            /\ IF Len(allChoices') = 0
               THEN /\ cliError' = ParseFailed
                    /\ rpc' = "failed"
                    /\ selectedMessage' = returned.text
               ELSE /\ cliError' = ""
                    /\ IF options.dryRun \/ options.json
                       THEN selectedMessage' = returned.text /\ rpc' = "selected"
                       ELSE IF Len(allChoices') = 1
                       THEN selectedMessage' = allChoices'[1] /\ rpc' = "selected"
                       ELSE selectedMessage' = returned.text /\ rpc' = "selecting"
       ELSE /\ allChoices' = <<>>
            /\ cliError' = ""
            /\ selectedMessage' = returned.text
            /\ rpc' = "selected"
    /\ UNCHANGED <<configVars, response, native, returned, netCalls, reads,
                   lastAnswer, displayMessage, messageForValidation,
                   formattedMessage, messageValidation, logged, output, commits, exitCode>>
    /\ UNCHANGED <<diffVars, cleanVars, fmtVars, stageVars, confVars>>

\* cli.ts 324-343: one answer to the question of askForChoice
AskForChoice ==
    /\ rpc = "selecting"
    /\ reads < MaxReads
    /\ \E answer \in AnswerPool :
          /\ lastAnswer' = answer
          /\ IF rejectedAnswer(answer, Len(allChoices))
             THEN rpc' = "selecting" /\ UNCHANGED selectedMessage
             ELSE /\ rpc' = "selected"
                  /\ selectedMessage' = allChoices[parseInt(answer).value]
    /\ reads' = reads + 1
    /\ UNCHANGED <<configVars, response, native, returned, allChoices, cliError, netCalls,
                   displayMessage, messageForValidation,
                   formattedMessage, messageValidation, logged, output, commits, exitCode>>
    /\ UNCHANGED <<diffVars, cleanVars, fmtVars, stageVars, confVars>>

\* cli.ts 223-251: the message to display and the message to validate, which
\* is formatted and validated
FormatAndValidate ==
    /\ rpc = "selected"
    /\ displayMessage' = selectedMessage
    /\ messageForValidation' =
          IF choices > 1 /\ (options.dryRun \/ options.json)
          THEN IF allChoices # <<>> /\ allChoices[1] # <<>> THEN allChoices[1] ELSE selectedMessage
          ELSE selectedMessage
    /\ formattedMessage' = formatCommitMessage(messageForValidation')
    /\ messageValidation' = validateConventionalCommit(formattedMessage')
    /\ logged' = warnInvalid(logged, options, messageValidation')
    /\ rpc' = "validated"
    /\ UNCHANGED <<configVars, response, native, returned, allChoices, cliError, netCalls,
                   reads, lastAnswer, selectedMessage, output, commits, exitCode>>
    /\ UNCHANGED <<diffVars, cleanVars, fmtVars, stageVars, confVars>>

\* cli.ts 253-279: the result is written
OutputResult ==
    /\ rpc = "validated"
    /\ output' = resultMessage(options, choices, displayMessage, formattedMessage)
    /\ rpc' = "printed"
    /\ UNCHANGED <<configVars, response, native, returned, allChoices, cliError, netCalls,
                   reads, lastAnswer, selectedMessage, displayMessage, messageForValidation,
                   formattedMessage, messageValidation, logged, commits, exitCode>>
    /\ UNCHANGED <<diffVars, cleanVars, fmtVars, stageVars, confVars>>

\* cli.ts 284-294: createCommit(formattedMessage), which git may refuse
CreateCommit ==
    /\ rpc = "printed"
    /\ shouldCommit(options)
    /\ commits' = Append(commits, formattedMessage)
    /\ \E e \in {"", CommitFailed} :
          /\ cliError' = e
          /\ rpc' = IF e = "" THEN "done" ELSE "failed"
          /\ exitCode' = IF e = "" THEN 0 ELSE exitCode
    /\ UNCHANGED <<configVars, response, native, returned, allChoices, netCalls,
                   reads, lastAnswer, selectedMessage, displayMessage, messageForValidation,
                   formattedMessage, messageValidation, logged, output>>
    /\ UNCHANGED <<diffVars, cleanVars, fmtVars, stageVars, confVars>>

\* cli.ts 282-283: a dry run ends without a commit
DryRunEnd ==
    /\ rpc = "printed"
    /\ ~shouldCommit(options)
    /\ rpc' = "done"
    /\ exitCode' = 0
    /\ UNCHANGED <<configVars, response, native, returned, allChoices, cliError, netCalls,
                   reads, lastAnswer, selectedMessage, displayMessage, messageForValidation,
                   formattedMessage, messageValidation, logged, output, commits>>
    /\ UNCHANGED <<diffVars, cleanVars, fmtVars, stageVars, confVars>>

\* cli.ts 67-78: the error runCLI threw is logged and the process exits
ExitOnError ==
    /\ rpc = "failed"
    /\ logged' = actionCatch(logged, cliError).logged
    /\ exitCode' = actionCatch(logged, cliError).exitCode
    /\ rpc' = "exited"
    /\ UNCHANGED <<configVars, response, native, returned, allChoices, cliError, netCalls,
                   reads, lastAnswer, selectedMessage, displayMessage, messageForValidation,
                   formattedMessage, messageValidation, output, commits>>
    /\ UNCHANGED <<diffVars, cleanVars, fmtVars, stageVars, confVars>>

RunNext ==
    \/ ValidateRepository
    \/ LoadConfig
    \/ ValidateApiKey
    \/ ValidateProviderConfig
    \/ GetStagedDiff
    \/ GenerateCommitMessage
    \/ HandleChoices
    \/ AskForChoice
    \/ FormatAndValidate
    \/ OutputResult
    \/ CreateCommit
    \/ DryRunEnd
    \/ ExitOnError

RunSpec == RunInit /\ [][RunNext]_vars

----------------------------------------------------------------------------
(* C13, C14 - a message that fails validation *)

\* C13: a validation failure never aborts the run: from the selected message
\* on, runCLI goes on to validate and to print whatever the validation says,
\* and without --dry-run it then invokes createCommit with the formatted
\* message
C13_CommitDespiteInvalid ==
    [][ /\ rpc = "selected" => rpc' = "validated"
        /\ rpc = "validated" => rpc' = "printed"
        /\ rpc = "printed" /\ ~options.dryRun
           => commits' = <<formattedMessage>> /\ rpc' \in {"done", "failed"} ]_vars

C13_Witness ==
    /\ rpc = "done"
    /\ ~options.dryRun
    /\ ~messageValidation.valid
    /\ commits = <<formattedMessage>>

\* C14: in every run mode, dry-run included, once validateConventionalCommit
\* has rejected the formatted message a warning naming the validation error
\* has been logged (unless --quiet has silenced all warnings)
C14_InvalidIsWarned ==
    ~messageValidation.valid /\ ~options.quiet
    => \E k \in 1..Len(logged) :
          logged[k].level = "warn" /\ logged[k].detail = messageValidation.error

----------------------------------------------------------------------------
(* C15 - several candidates without interaction *)

\* C15: when more than one candidate was asked for and --dry-run or --json
\* is given, no answer is read and the message written to the output is the
\* whole list: the text the adapter returned, from which the parsed
\* candidates are read in their order
C15_WholeListIsOutput ==
    choices > 1 /\ (options.dryRun \/ options.json)
    => /\ reads = 0
       /\ rpc # "selecting"
       /\ rpc \in {"printed", "done"}
          => /\ output = returned.text
             /\ cliChoices(Split(output)) = allChoices
             /\ allChoices # <<>>

C15_Witness ==
    /\ rpc = "done"
    /\ choices > 1
    /\ options.json
    /\ Len(allChoices) >= 2
    /\ output = returned.text

----------------------------------------------------------------------------
(* C16 - the interactive selection *)

\* an answer that is a number: an optional sign and digits, nothing else
IsNumber(answer) ==
    LET t == Trim(answer)
        u == IF Len(t) > 0 /\ t[1] \in {"+", "-"} THEN Tail(t) ELSE t
    IN  Len(u) > 0 /\ \A k \in 1..Len(u) : IsDigit(u[k])

\* an answer the claim accepts: a number in 1..n
ValidAnswer(answer, n) ==
    IsNumber(answer) /\ ~parseInt(answer).nan /\ parseInt(answer).value \in 1..n

\* C16: with two or more candidates, after an answer that is not a number in
\* 1..N the selection is still presenting and no commit was made; after an
\* answer k in 1..N the k-th candidate is selected; with one candidate it is
\* selected without any read
C16_InteractiveSelection ==
    /\ rpc = "selecting" => Len(allChoices) >= 2 /\ commits = <<>>
    /\ reads > 0 /\ ~ValidAnswer(lastAnswer, Len(allChoices))
       => rpc = "selecting" /\ commits = <<>>
    /\ reads > 0 /\ ValidAnswer(lastAnswer, Len(allChoices))
       => rpc # "selecting" /\ selectedMessage = allChoices[parseInt(lastAnswer).value]
    /\ Len(allChoices) = 1 /\ ~options.dryRun /\ ~options.json
       => reads = 0 /\ selectedMessage = allChoices[1]

----------------------------------------------------------------------------
(* C17, C18 - the call to the backend *)

\* C17: at most one call is issued to the backend; after a failed call the
\* run is over, no further call is issued and no commit is created
C17_OneCallNoRetry ==
    /\ netCalls <= 1
    /\ returned.kind = "error"
       => rpc \in {"failed", "exited"} /\ netCalls = 1 /\ commits = <<>>

C17_Witness ==
    /\ rpc = "exited"
    /\ returned.kind = "error"
    /\ native.kind = "error"
    /\ netCalls = 1
    /\ commits = <<>>

\* C18: in a run whose validateApiKey or validateProviderConfig fails, no
\* call is issued to the backend and no commit is created
C18_InvalidCredentialNoCall ==
    \/ ~validateApiKey(provider, apiKey).valid
    \/ ~validateProviderConfig(provider, modelSupported, apiKey).valid
    => netCalls = 0 /\ returned.kind = "none" /\ commits = <<>>

C18_Witness ==
    /\ rpc = "exited"
    /\ provider = "openai"
    /\ validateApiKey(provider, apiKey).valid
    /\ ~validateConfig(provider, apiKey)
    /\ cliError = InvalidProviderConfig
    /\ netCalls = 0
    /\ commits = <<>>

----------------------------------------------------------------------------
(* utils/patterns.ts: the exclusion filter *)

\* s.replace(/\\/g, '/')
normalizeSeparators(s) == [k \in 1..Len(s) |-> IF s[k] = "\\" THEN "/" ELSE s[k]]

\* the segments of a path or of a pattern between its slashes
RECURSIVE SplitPath(_)
SplitPath(s) ==
    LET p == IndexOf(s, "/")
    IN  IF p = 0 THEN <<s>>
        ELSE <<SubSeq(s, 1, p - 1)>> \o SplitPath(SubSeq(s, p + 1, Len(s)))

\* one path segment against one pattern segment: * stands for any run of
\* characters, ? for one character, every other character for itself
RECURSIVE globSegment(_, _)
globSegment(seg, pat) ==
    IF pat = <<>> THEN seg = <<>>
    ELSE IF pat[1] = "*"
    THEN globSegment(seg, Tail(pat)) \/ (seg # <<>> /\ globSegment(Tail(seg), pat))
    ELSE IF pat[1] = "?"
    THEN seg # <<>> /\ globSegment(Tail(seg), Tail(pat))
    ELSE seg # <<>> /\ seg[1] = pat[1] /\ globSegment(Tail(seg), Tail(pat))

\* the segments of a path against the segments of a pattern: ** stands for
\* any number of segments, and at the end for one segment or more; with
\* dot: true a wildcard matches a leading dot, but no empty segment
RECURSIVE matchOne(_, _)
matchOne(segs, pats) ==
    IF pats = <<>> THEN segs = <<>>
    ELSE IF segs = <<>> THEN FALSE
    ELSE IF pats[1] = <<"*", "*">>
    THEN IF Len(pats) = 1 THEN TRUE
         ELSE \E fr \in 1..Len(segs) : matchOne(SubSeq(segs, fr, Len(segs)), Tail(pats))
    ELSE /\ segs[1] # <<>> \/ pats[1] = <<>>
         /\ globSegment(segs[1], pats[1])
         /\ matchOne(Tail(segs), Tail(pats))

\* minimatch(path, pattern, {dot: true, matchBase: true}): a pattern without
\* a slash is matched against the last segment of the path
minimatch(path, pattern) ==
    LET segs == SplitPath(path)
        pats == SplitPath(pattern)
    IN  IF Len(pats) = 1 THEN matchOne(<<segs[Len(segs)]>>, pats)
        ELSE matchOne(segs, pats)

\* a path is excluded only when every pattern matches it
isFileExcludedByEvery(filePath, patterns) ==
    IF Len(patterns) = 0 THEN FALSE
    ELSE \A k \in 1..Len(patterns) :
            minimatch(normalizeSeparators(filePath), normalizeSeparators(patterns[k]))

\* patterns.ts 6-21
isFileExcluded(filePath, patterns) ==
    IF Len(patterns) = 0 THEN FALSE
    ELSE \E k \in 1..Len(patterns) :
            minimatch(normalizeSeparators(filePath), normalizeSeparators(patterns[k]))

\* patterns.ts 26-35
filterExcludedFiles(files, patterns) ==
    IF Len(patterns) = 0 THEN files
    ELSE SelectSeq(files, LAMBDA f : ~isFileExcluded(f, patterns))

----------------------------------------------------------------------------
(* git/diff.ts: the noise classifier and getStagedDiff *)

\* NOISE_PATTERNS: a pattern that ends with $ is tested at the end of the
\* name, any other pattern anywhere in it
isNoiseFile(filename) ==
    \/ EndsWith(filename, <<".", "m", "a", "p">>)
    \/ EndsWith(filename, <<".", "m", "i", "n", ".", "j", "s">>) \/ EndsWith(filename, <<".", "m", "i", "n", ".", "c", "s", "s">>)
    \/ EndsWith(filename, <<"b", "u", "n", "d", "l", "e", ".", "j", "s">>) \/ EndsWith(filename, <<"b", "u", "n", "d", "l", "e", ".", "c", "s", "s">>)
    \/ EndsWith(filename, <<"p", "a", "c", "k", "a", "g", "e", "-", "l", "o", "c", "k", ".", "j", "s", "o", "n">>)
    \/ EndsWith(filename, <<"y", "a", "r", "n", ".", "l", "o", "c", "k">>)
    \/ EndsWith(filename, <<"b", "u", "n", ".", "l", "o", "c", "k">>)
    \/ EndsWith(filename, <<"p", "n", "p", "m", "-", "l", "o", "c", "k", ".", "y", "a", "m", "l">>)
    \/ IndexOfSub(filename, <<".", "g", "e", "n", "e", "r", "a", "t", "e", "d", ".">>) # 0
    \/ IndexOfSub(filename, <<".", "g", "e", "n", ".">>) # 0
    \/ IndexOfSub(filename, <<".", "a", "u", "t", "o", ".">>) # 0
    \/ IndexOfSub(filename, <<".", "v", "s", "c", "o", "d", "e", "/">>) # 0
    \/ IndexOfSub(filename, <<".", "i", "d", "e", "a", "/">>) # 0

\* part_007 199-202: the staged paths, then the modified paths that are staged
stagedFilesOf(staged, modified) ==
    staged \o SelectSeq(modified, LAMBDA f : \E k \in 1..Len(staged) : staged[k] = f)

\* part_007 213-216: the exclusion patterns, then the noise classifier
filteredFilesOf(files, patterns) ==
    SelectSeq(filterExcludedFiles(files, patterns), LAMBDA f : ~isNoiseFile(f))

\* any text counts as a change, white space included
hasChangesUntrimmed(optimizedDiff) == Len(optimizedDiff) > 0

\* part_007 240: optimizedDiff.trim().length > 0
hasChangesOf(optimizedDiff) == Len(Trim(optimizedDiff)) > 0

\* part_007 226-232: the paths git.diff is called with, when it is called
diffArgsOf(staged, modified, patterns) ==
    LET files == filteredFilesOf(stagedFilesOf(staged, modified), patterns)
    IN  IF Len(files) = 0 THEN <<>> ELSE <<files>>

\* part_007 183-241: the three return paths of getStagedDiff
getStagedDiff(staged, modified, patterns, answer) ==
    LET allStaged == stagedFilesOf(staged, modified)
        kept == filteredFilesOf(allStaged, patterns)
        optimizedDiff == optimizeDiff(answer)
    IN  IF Len(allStaged) = 0
        THEN [kind |-> "ok", files |-> <<>>, diff |-> <<>>, hasChanges |-> FALSE]
        ELSE IF Len(kept) = 0
        THEN [kind |-> "ok", files |-> allStaged, diff |-> <<>>, hasChanges |-> FALSE]
        ELSE [kind |-> "ok", files |-> kept, diff |-> Trim(optimizedDiff),
              hasChanges |-> hasChangesOf(optimizedDiff)]

\* cli.ts 149-161: what runCLI throws for a changeset without changes
changesError(result) ==
    IF result.hasChanges THEN [kind |-> "none", n |-> 0]
    ELSE IF Len(result.files) = 0 THEN [kind |-> "noStagedFiles", n |-> 0]
    ELSE [kind |-> "allExcluded", n |-> Len(result.files)]

----------------------------------------------------------------------------
(* One call of getStagedDiff and runCLI's test of its result *)

\* largest number of paths git.status reports as staged
MaxStaged == 2

\* largest number of paths git.status reports as modified
MaxModified == 1

FilePool ==
    { <<"s", "r", "c", "/", "b", ".", "j", "s">>,
      <<"a", ".", "t", "e", "s", "t", ".", "j", "s">>,
      <<"d", "o", "c", "s", "\\", "r", ".", "m", "d">>,
      <<"y", "a", "r", "n", ".", "l", "o", "c", "k">> }

\* lists of at most n paths, each path once
FileLists(n) ==
    {fs \in UNION {[1..m -> FilePool] : m \in 0..n} :
        \A i, j \in 1..Len(fs) : i # j => fs[i] # fs[j]}

PatternListPool ==
    { <<>>,
      <<<<"*", ".", "t", "e", "s", "t", ".", "j", "s">>>>,
      <<<<"*", ".", "j", "s">>, <<"d", "o", "c", "s", "/", "*", "*">>>>,
      <<<<"s", "r", "c", "/", "*", ".", "j", "s">>>>,
      <<<<"s", "r", "c", "\\", "*", ".", "j", "s">>, <<"*", "*", "/", "r", ".", "m", "d">>>>,
      <<<<"*">>>> }

GitDiffPool ==
    { <<>>,
      <<"+", "/", "/", " ", "c">>,
      <<" ", " ">>,
      <<" ", NL, "+", "a", NL>>,
      <<"@", "@", " ", "-", "1", " ", "+", "1", " ", "@", "@", NL, "+", "/", "/", " ", "c">> }

StageInit ==
    /\ spc = "status"
    /\ statusStaged \in FileLists(MaxStaged)
    /\ statusModified \in FileLists(MaxModified)
    /\ excludePatterns \in PatternListPool
    /\ gitDiff \in GitDiffPool
    /\ stagedFiles = <<>>
    /\ filteredFiles = <<>>
    /\ diffArgs = <<>>
    /\ diffResult = [kind |-> "none"]
    /\ stageError = [kind |-> "none", n |-> 0]
    /\ DiffIdle
    /\ CleanIdle
    /\ GenIdle
    /\ FmtIdle
    /\ RunIdle
    /\ ConfIdle

stageInputs == <<statusStaged, statusModified, excludePatterns, gitDiff>>

\* part_007 183-248: getStagedDiff(excludePatterns); every error of git is
\* thrown again as 'Git operation failed'
GetStagedDiffCall ==
    /\ spc = "status"
    /\ spc' = "returned"
    /\ \/ /\ stagedFiles' = stagedFilesOf(statusStaged, statusModified)
          /\ filteredFiles' = filteredFilesOf(stagedFiles', excludePatterns)
          /\ diffArgs' = diffArgsOf(statusStaged, statusModified, excludePatterns)
          /\ diffResult' = getStagedDiff(statusStaged, statusModified, excludePatterns, gitDiff)
       \/ /\ diffResult' = [kind |-> "error"]
          /\ UNCHANGED <<stagedFiles, filteredFiles, diffArgs>>
    /\ UNCHANGED <<stageInputs, stageError>>
    /\ UNCHANGED <<diffVars, cleanVars, genVars, fmtVars, runVars, confVars>>

\* cli.ts 147-163: the error of getStagedDiff leaves runCLI, a changeset
\* without changes is an error, any other changeset goes on to the generation
CheckChanges ==
    /\ spc = "returned"
    /\ IF diffResult.kind = "error"
       THEN stageError' = [kind |-> "git", n |-> 0] /\ spc' = "failed"
       ELSE /\ stageError' = changesError(diffResult)
            /\ spc' = IF stageError'.kind = "none" THEN "generate" ELSE "failed"
    /\ UNCHANGED <<stageInputs, stagedFiles, filteredFiles, diffArgs, diffResult>>
    /\ UNCHANGED <<diffVars, cleanVars, genVars, fmtVars, runVars, confVars>>

StageNext ==
    \/ GetStagedDiffCall
    \/ CheckChanges

StageSpec == StageInit /\ [][StageNext]_vars

----------------------------------------------------------------------------
(* C21, C22, C23, C29, C30 - the exclusion filter and the changeset *)

\* some pattern matches the path, both with their separators normalized
ClaimedExcluded(p, ps) ==
    \E k \in 1..Len(ps) : minimatch(normalizeSeparators(p), normalizeSeparators(ps[k]))

\* the paths of fs that no pattern matches, in their order
ClaimedFilter(fs, ps) == SelectSeq(fs, LAMBDA f : ~ClaimedExcluded(f, ps))

\* C21: isFileExcluded(path, patterns) is true exactly when some pattern
\* matches the separator-normalized path, and never for an empty pattern
\* list; filterExcludedFiles returns exactly the paths that are not excluded,
\* in their original order, and the list itself when there is no pattern; the
\* filtered list of getStagedDiff is made of such paths
C21_ExclusionFilter ==
    /\ \A f \in FilePool :
          isFileExcluded(f, excludePatterns) <=> ClaimedExcluded(f, excludePatterns)
    /\ \A f \in FilePool : ~isFileExcluded(f, <<>>)
    /\ filterExcludedFiles(stagedFilesOf(statusStaged, statusModified), excludePatterns)
          = ClaimedFilter(stagedFilesOf(statusStaged, statusModified), excludePatterns)
    /\ filterExcludedFiles(statusStaged, <<>>) = statusStaged
    /\ spc # "status" /\ diffResult.kind = "ok"
       => filteredFiles = SelectSeq(ClaimedFilter(stagedFiles, excludePatterns),
                                    LAMBDA f : ~isNoiseFile(f))

C21_Witness ==
    /\ spc = "returned"
    /\ diffResult.kind = "ok"
    /\ Len(excludePatterns) = 2
    /\ Len(stagedFiles) = 2
    /\ isFileExcluded(stagedFiles[1], excludePatterns)
    /\ \E k \in 1..2 : ~minimatch(normalizeSeparators(stagedFiles[1]),
                                   normalizeSeparators(excludePatterns[k]))
    /\ filteredFiles = <<stagedFiles[2]>>

\* C22: no path in the file list of a returned changeset matches an
\* exclusion pattern or the noise classifier, and git.diff is asked about
\* such paths only
C22_NoExcludedOrNoisePath ==
    diffResult.kind = "ok"
    => /\ \A k \in 1..Len(diffResult.files) :
             /\ ~isFileExcluded(diffResult.files[k], excludePatterns)
             /\ ~isNoiseFile(diffResult.files[k])
       /\ \A c \in 1..Len(diffArgs) : \A k \in 1..Len(diffArgs[c]) :
             /\ ~isFileExcluded(diffArgs[c][k], excludePatterns)
             /\ ~isNoiseFile(diffArgs[c][k])

\* C23: every returned changeset has hasChanges = (diff.trim() # ""), and
\* the generation is reached with hasChanges true only
C23_HasChangesIffDiff ==
    /\ diffResult.kind = "ok" => diffResult.hasChanges = (Trim(diffResult.diff) # <<>>)
    /\ spc = "generate" => diffResult.kind = "ok" /\ diffResult.hasChanges

C23_Witness ==
    /\ spc = "failed"
    /\ diffResult.kind = "ok"
    /\ diffResult.files # <<>>
    /\ diffArgs # <<>>
    /\ gitDiff # <<>>
    /\ optimizeDiff(gitDiff) # <<>>
    /\ ~diffResult.hasChanges

\* C29: the error 'All staged files (N) were excluded by patterns' is thrown
\* only when the patterns and the noise classifier removed every staged path,
\* with N the number of staged paths; when paths are kept and their diff is
\* empty after the reduction, this error is not the one thrown
C29_AllExcludedOnlyWhenAllRemoved ==
    stageError.kind = "allExcluded"
    => /\ stagedFiles # <<>>
       /\ filteredFiles = <<>>
       /\ stageError.n = Len(statusStaged)

\* C30: the file list of a returned changeset holds each path at most once,
\* also when git.status reports a path as staged and as modified
C30_EachPathOnce ==
    diffResult.kind = "ok"
    => \A i, j \in 1..Len(diffResult.files) :
          i # j => diffResult.files[i] # diffResult.files[j]

----------------------------------------------------------------------------
(* config/index.ts: the exclusion patterns of loadConfig *)

\* patterns.ts 63-81 and 102-111: the build, dependencies, vcs, editors, os
\* and temp lists of COMMON_EXCLUSIONS
getDefaultExclusions ==
    <<"dist/**", "build/**", "out/**", ".next/**", ".nuxt/**">>
        \o <<"node_modules/**", "vendor/**", "bower_components/**">>
        \o <<".git/**", ".svn/**", ".hg/**">>
        \o <<".vscode/**", ".idea/**", "*.swp", "*.swo", "*~">>
        \o <<".DS_Store", "Thumbs.db", "desktop.ini">>
        \o <<"*.log", "*.tmp", "*.temp", ".cache/**", ".temp/**">>

\* index.ts 30-37: the excludePatterns of createDefaultConfig()
createDefaultConfig == getDefaultExclusions

\* index.ts 157-162: the patterns of --exclude are appended
applyCLIOptions(current, exclude) ==
    IF Len(exclude) > 0 THEN current \o exclude ELSE current

\* index.ts 174-193: in {...config, ...loadConfigFile()} a key of the file
\* replaces the key of the defaults; the environment has no exclusion
\* patterns and the schema leaves a list of strings as it is
loadConfig(fromFile, exclude) ==
    applyCLIOptions(IF fromFile.present THEN fromFile.patterns ELSE createDefaultConfig,
                    exclude)

----------------------------------------------------------------------------
(* One call of loadConfig *)

\* largest number of patterns in the configuration file
MaxFilePatterns == 2

\* largest number of patterns given with --exclude
MaxCliPatterns == 2

PatternPool == {"*.md", "dist/**", "docs/**"}

PatternLists(n) == UNION {[1..m -> PatternPool] : m \in 0..n}

ConfInit ==
    /\ kpc = "sources"
    /\ configFile \in {[present |-> FALSE, patterns |-> <<>>]}
                      \cup {[present |-> TRUE, patterns |-> ps] :
                               ps \in PatternLists(MaxFilePatterns)}
    /\ cliExclude \in PatternLists(MaxCliPatterns)
    /\ loadedPatterns = <<>>
    /\ DiffIdle
    /\ CleanIdle
    /\ GenIdle
    /\ FmtIdle
    /\ RunIdle
    /\ StageIdle

\* index.ts 174-193: loadConfig(cliOptions)
LoadConfigCall ==
    /\ kpc = "sources"
    /\ loadedPatterns' = loadConfig(configFile, cliExclude)
    /\ kpc' = "loaded"
    /\ UNCHANGED <<configFile, cliExclude>>
    /\ UNCHANGED <<diffVars, cleanVars, genVars, fmtVars, runVars, stageVars>>

ConfNext == LoadConfigCall

ConfSpec == ConfInit /\ [][ConfNext]_vars

----------------------------------------------------------------------------
(* C24 - the merged exclusion patterns *)

\* C24: the pattern list loadConfig returns is the built-in default patterns,
\* then the patterns of the configuration file, then the patterns of the
\* command line, none of them dropped and no duplicate removed
C24_PatternsConcatenated ==
    kpc = "loaded"
    => loadedPatterns = getDefaultExclusions \o configFile.patterns \o cliExclude

----------------------------------------------------------------------------
(* C25, C26, C28 - the end of a run *)

\* C25: in a run with --dry-run, whatever the other options and the answer
\* of the backend, createCommit is never invoked
C25_DryRunNeverCommits ==
    options.dryRun => commits = <<>>

C25_Witness ==
    /\ rpc = "done"
    /\ options.dryRun
    /\ output # <<>>
    /\ commits = <<>>

\* the states of a run that C26 speaks about
ErrorsAreFatal ==
    /\ cliError # "" => rpc \in {"failed", "exited"}
    /\ rpc = "failed" => cliError # ""
    /\ rpc = "exited"
       => /\ exitCode = 1
          /\ logged # <<>>
          /\ logged[Len(logged)] = ErrorEntry(cliError)
    /\ rpc \in {"failed", "exited"} /\ cliError # CommitFailed => commits = <<>>
    /\ exitCode = 1 => rpc = "exited"
    /\ rpc = "done"
       => /\ exitCode = 0
          /\ \A k \in 1..Len(logged) : logged[k].level # "error"

\* C26: every error thrown in runCLI ends the process with exit code 1 after
\* its message was logged, an error thrown before the commit step leaves no
\* commit, and a run that ends without error never takes the exit-1 path
C26_FatalErrorsExit ==
    /\ []ErrorsAreFatal
    /\ [][rpc = "failed" => rpc' = "exited" /\ exitCode' = 1]_vars

C26_Witness ==
    /\ rpc = "exited"
    /\ exitCode = 1
    /\ cliError = ParseFailed
    /\ logged[Len(logged)] = ErrorEntry(ParseFailed)
    /\ commits = <<>>

\* C28: when more than one candidate was asked for and parsed, a commit is
\* created only with the candidate the user selected with an answer, and the
\* message written to the output is the committed message
C28_CommitOnlySelected ==
    choices > 1 /\ Len(allChoices) >= 2 /\ commits # <<>>
    => /\ reads > 0
       /\ ~rejectedAnswer(lastAnswer, Len(allChoices))
       /\ commits[1] = formatCommitMessage(allChoices[parseInt(lastAnswer).value])
       /\ rpc \in {"done", "failed", "exited"} => output = commits[1]

----------------------------------------------------------------------------
(* C27 - what the formatter removes and keeps *)

\* the number of lines the formatter has put in
InsertedLines == Len(FormattedLines) - Len(MessageLines)

\* C27: the first line of the formatted text does not end with a period; the
\* formatted text has no white space and no blank line around it; the lines
\* after the first are those of the message, a blank line between header and
\* body included
C27_HeaderWithoutPeriod ==
    fpc \in {"formatted", "validated"}
    => /\ ~EndsWith(FormattedLines[1], Period)
       /\ formatted = Trim(formatted)
       /\ InsertedLines \in {0, 1}
       /\ \A i \in 2..Len(MessageLines) :
             Trim(FormattedLines[i + InsertedLines]) = Trim(MessageLines[i])

====
